---------------------------- MODULE Spec2Model ----------------------------
(***************************************************************************)
(* Session capture controller of iconic-memory-ui (src/iconic-memory-ui/   *)
(* src/App.tsx): the useOvershootSession hook, the Start/Stop handlers of  *)
(* AgentWorkSessionUI that drive it, and the external vision / media       *)
(* collaborators seen through their callbacks and promises.                *)
(*                                                                         *)
(* The hook is a React function component hook: `status` is React state,   *)
(* so a startSession closure reads the status of the render that created   *)
(* it.  A click runs the closure of the latest render; the retry timer     *)
(* set by onError runs the closure that created the vision client.  The    *)
(* captured status is therefore carried as the parameter `cap`.            *)
(*                                                                         *)
(* A step is what runs between two suspensions that something outside has  *)
(* to end: a click, a callback, a timer or a settled promise, with the     *)
(* microtasks it leaves.  `await ensureScreenStream()` suspends            *)
(* startSession also when the stream is held already; where the hook's     *)
(* functions are called directly (SpecHook) that continuation is a step of *)
(* its own, so that a second call made in the same task comes before it.   *)
(* Date.now() is the wall clock and may return less than it did before.    *)
(*                                                                         *)
(* The module also holds compressObservations and                          *)
(* calculateJaccardSimilarity, which handleStop applies to the list that   *)
(* stopSession() returned.  Strings are sequences of characters and a      *)
(* quotient of two sizes is kept as the pair of its numerator and          *)
(* denominator.  Specifications: Spec (the UI driving the hook), SpecHook  *)
(* (the hook's functions also called directly, beside runConnectivityTest  *)
(* and clearOvershootApiKey, which the page does not call), and one for    *)
(* each function applied on its own to bounded arguments: SpecCompress,    *)
(* SpecJaccard,                                                            *)
(* SpecRank and SpecSummary.                                               *)
(***************************************************************************)
EXTENDS Integers, Sequences, FiniteSets, TLC

\* ---------------------------------------------------------------- bounds
MaxSteps == 8        \* handler steps (clicks, callbacks, settled promises, timers) in one behaviour
MaxTime  == 2        \* largest value Date.now() returns
MaxLen   == 4        \* longest observation list handed to compressObservations
MaxStrLen == 4       \* longest string handed to calculateJaccardSimilarity
MaxSessions == 3     \* longest session list handed to the search ranker
MaxNormSq == 80      \* largest sum of squared counts with its root in the table
MaxCount == 8        \* largest count of a token with its quotients in the table
MaxLines == 4        \* most lines in a response handed to generateSessionSummary

\* ------------------------------------------------------ program constants
RetryCap == 3        \* onError: retryCount.current < 3

\* A character outside ASCII is written as its JavaScript escape: "\\u26a0" is
\* the one character U+26A0.  The text starts with U+26A0, U+FE0F and a blank.
ConnectionLostText == "\\u26a0\\ufe0f Connection to Vision Model lost."

Results == {[result |-> "a"], [result |-> "b"]}
Errors  == {"stream_not_found", "404", "timeout"}

NativeGUM     == [kind |-> "native",   stream |-> 0]
NoGUM         == [kind |-> "null",     stream |-> 0]
Redirect(s)   == [kind |-> "redirect", stream |-> s]

NoEvent == [op |-> "init", by |-> "none", ret |-> "none", arg |-> ""]

VARIABLES
  status,                  \* useState("Ready")
  latestObservation,       \* useState("")
  previewStreamRef,        \* stream id, 0 = null
  visionRef,               \* vision id, 0 = null
  originalGetUserMediaRef, \* saved entry point, NoGUM = null
  patchedRef,              \* BOOLEAN
  observationsRef,         \* sequence of [ts, result]
  retryCount,              \* 0..
  getUserMedia,            \* navigator.mediaDevices.getUserMedia
  hasGetDisplayMedia,      \* navigator.mediaDevices?.getDisplayMedia exists
  apiKeyStored,            \* localStorage has OVS_API_KEY
  streams,                 \* stream id -> "live" | "stopped"
  visions,                 \* vision id -> [st, stopAsked, cap]
  startCalls,              \* startSession() invocations suspended at an await
  rendered,                \* `status` as the latest render of the hook has it
  renders,                 \* history: every `status` a render of the hook has had
  testCalls,               \* runConnectivityTest() invocations not yet finished
  stopCalls,               \* handleStop() invocations suspended in stopSession()
  timers,                  \* pending setTimeout retries, oldest first
  isActive,                \* AgentWorkSessionUI useState(false)
  startAt,                 \* AgentWorkSessionUI useState(null), 0 = null
  capturedObservations,    \* what the last stopSession() returned
  flowTitle,               \* AgentWorkSessionUI useState(""): the "Session name" input
  flowDescription,         \* AgentWorkSessionUI useState(""): the "Description" input
  now,                     \* last value read from Date.now()
  clockOrdered,            \* history: no Date.now() has returned less than the one before it
  steps,                   \* handler steps taken so far
  ev,                      \* the handler step that produced this state
  transientRun,            \* history: stream errors delivered since the last observation or stop
  retriesInRun,            \* history: retry timers set since the last observation or stop
  sessionObs,              \* history: observations appended since the last Start click that started a session
  recordingsOpen,          \* history: handleStart calls that succeeded, less the Session records added
  raw,                     \* compressObservations: the argument `raw`
  threshold,               \* compressObservations: the argument `threshold`
  compressed,              \* compressObservations: the returned list
  applied,                 \* the function of the specification has been applied to its arguments
  str1,                    \* calculateJaccardSimilarity: the argument `str1`
  str2,                    \* calculateJaccardSimilarity: the argument `str2`
  jaccard,                 \* calculateJaccardSimilarity: the returned number
  sessions,                \* AgentWorkSessionUI: `sessions`, newest first
  workflowQuery,           \* AgentWorkSessionUI: `workflowQuery`
  similarityById,          \* AgentWorkSessionUI: the memo `similarityById`
  topMatchId,              \* AgentWorkSessionUI: the memo `topMatchId`
  summaryCalls,            \* handleStop calls suspended in generateSessionSummary
  requestEnd,              \* generateSessionSummary: how its request ended
  summary                  \* generateSessionSummary: the returned highlights

vars == <<status, latestObservation, previewStreamRef, visionRef,
          originalGetUserMediaRef, patchedRef, observationsRef, retryCount,
          getUserMedia, hasGetDisplayMedia, apiKeyStored, streams, visions,
          startCalls, rendered, renders, testCalls, stopCalls, timers, isActive, startAt,
          capturedObservations, flowTitle, flowDescription, now, clockOrdered, steps, ev,
          transientRun, retriesInRun, sessionObs, recordingsOpen,
          raw, threshold, compressed, applied,
          str1, str2, jaccard,
          sessions, workflowQuery, similarityById, topMatchId,
          summaryCalls, requestEnd, summary>>

\* The hook's state and its collaborators as one value, so that a handler is
\* a function from the state it finds to the state it leaves.
Cur ==
  [status |-> status, latestObservation |-> latestObservation,
   previewStreamRef |-> previewStreamRef, visionRef |-> visionRef,
   originalGetUserMediaRef |-> originalGetUserMediaRef,
   patchedRef |-> patchedRef, observationsRef |-> observationsRef,
   retryCount |-> retryCount, getUserMedia |-> getUserMedia,
   apiKeyStored |-> apiKeyStored, streams |-> streams, visions |-> visions,
   startCalls |-> startCalls, timers |-> timers,
   ret |-> "none", out |-> <<>>]

SetRefs(h) ==
  /\ status' = h.status
  /\ latestObservation' = h.latestObservation
  /\ previewStreamRef' = h.previewStreamRef
  /\ visionRef' = h.visionRef
  /\ originalGetUserMediaRef' = h.originalGetUserMediaRef
  /\ patchedRef' = h.patchedRef
  /\ observationsRef' = h.observationsRef
  /\ retryCount' = h.retryCount
  /\ getUserMedia' = h.getUserMedia
  /\ apiKeyStored' = h.apiKeyStored
  /\ streams' = h.streams
  /\ visions' = h.visions
  /\ startCalls' = h.startCalls
  /\ timers' = h.timers

\* The handler ran in a task of its own: React has rendered the hook with the
\* status the task found, and when the task is over it renders the hook
\* again, with the status the handler left.
Set(h) ==
  /\ SetRefs(h)
  /\ rendered' = h.status
  /\ renders' = renders \cup {status, h.status}

RemoveAt(s, i) == SubSeq(s, 1, i - 1) \o SubSeq(s, i + 1, Len(s))

\* ------------------------------------------------------------- texts
\* A string is the sequence of its UTF-16 code units; a code point is the
\* sequence of its one or two code units.  A character outside printable
\* ASCII is written as its JavaScript escape: "\\u00c0" is the one code unit
\* U+00C0 (and so is the grave accent, U+0060).
\* The code points that toLowerCase changes into one other code point, in
\* code point order: A-Z first.
UpperCase ==
  << <<"A">>, <<"B">>, <<"C">>, <<"D">>, <<"E">>, <<"F">>, <<"G">>, <<"H">>, <<"I">>, <<"J">>,
    <<"K">>, <<"L">>, <<"M">>, <<"N">>, <<"O">>, <<"P">>, <<"Q">>, <<"R">>, <<"S">>, <<"T">>,
    <<"U">>, <<"V">>, <<"W">>, <<"X">>, <<"Y">>, <<"Z">>, <<"\\u00c0">>, <<"\\u00c1">>,
    <<"\\u00c2">>, <<"\\u00c3">>, <<"\\u00c4">>, <<"\\u00c5">>, <<"\\u00c6">>, <<"\\u00c7">>,
    <<"\\u00c8">>, <<"\\u00c9">>, <<"\\u00ca">>, <<"\\u00cb">>, <<"\\u00cc">>, <<"\\u00cd">>,
    <<"\\u00ce">>, <<"\\u00cf">>, <<"\\u00d0">>, <<"\\u00d1">>, <<"\\u00d2">>, <<"\\u00d3">>,
    <<"\\u00d4">>, <<"\\u00d5">>, <<"\\u00d6">>, <<"\\u00d8">>, <<"\\u00d9">>, <<"\\u00da">>,
    <<"\\u00db">>, <<"\\u00dc">>, <<"\\u00dd">>, <<"\\u00de">>, <<"\\u0100">>, <<"\\u0102">>,
    <<"\\u0104">>, <<"\\u0106">>, <<"\\u0108">>, <<"\\u010a">>, <<"\\u010c">>, <<"\\u010e">>,
    <<"\\u0110">>, <<"\\u0112">>, <<"\\u0114">>, <<"\\u0116">>, <<"\\u0118">>, <<"\\u011a">>,
    <<"\\u011c">>, <<"\\u011e">>, <<"\\u0120">>, <<"\\u0122">>, <<"\\u0124">>, <<"\\u0126">>,
    <<"\\u0128">>, <<"\\u012a">>, <<"\\u012c">>, <<"\\u012e">>, <<"\\u0132">>, <<"\\u0134">>,
    <<"\\u0136">>, <<"\\u0139">>, <<"\\u013b">>, <<"\\u013d">>, <<"\\u013f">>, <<"\\u0141">>,
    <<"\\u0143">>, <<"\\u0145">>, <<"\\u0147">>, <<"\\u014a">>, <<"\\u014c">>, <<"\\u014e">>,
    <<"\\u0150">>, <<"\\u0152">>, <<"\\u0154">>, <<"\\u0156">>, <<"\\u0158">>, <<"\\u015a">>,
    <<"\\u015c">>, <<"\\u015e">>, <<"\\u0160">>, <<"\\u0162">>, <<"\\u0164">>, <<"\\u0166">>,
    <<"\\u0168">>, <<"\\u016a">>, <<"\\u016c">>, <<"\\u016e">>, <<"\\u0170">>, <<"\\u0172">>,
    <<"\\u0174">>, <<"\\u0176">>, <<"\\u0178">>, <<"\\u0179">>, <<"\\u017b">>, <<"\\u017d">>,
    <<"\\u0181">>, <<"\\u0182">>, <<"\\u0184">>, <<"\\u0186">>, <<"\\u0187">>, <<"\\u0189">>,
    <<"\\u018a">>, <<"\\u018b">>, <<"\\u018e">>, <<"\\u018f">>, <<"\\u0190">>, <<"\\u0191">>,
    <<"\\u0193">>, <<"\\u0194">>, <<"\\u0196">>, <<"\\u0197">>, <<"\\u0198">>, <<"\\u019c">>,
    <<"\\u019d">>, <<"\\u019f">>, <<"\\u01a0">>, <<"\\u01a2">>, <<"\\u01a4">>, <<"\\u01a6">>,
    <<"\\u01a7">>, <<"\\u01a9">>, <<"\\u01ac">>, <<"\\u01ae">>, <<"\\u01af">>, <<"\\u01b1">>,
    <<"\\u01b2">>, <<"\\u01b3">>, <<"\\u01b5">>, <<"\\u01b7">>, <<"\\u01b8">>, <<"\\u01bc">>,
    <<"\\u01c4">>, <<"\\u01c5">>, <<"\\u01c7">>, <<"\\u01c8">>, <<"\\u01ca">>, <<"\\u01cb">>,
    <<"\\u01cd">>, <<"\\u01cf">>, <<"\\u01d1">>, <<"\\u01d3">>, <<"\\u01d5">>, <<"\\u01d7">>,
    <<"\\u01d9">>, <<"\\u01db">>, <<"\\u01de">>, <<"\\u01e0">>, <<"\\u01e2">>, <<"\\u01e4">>,
    <<"\\u01e6">>, <<"\\u01e8">>, <<"\\u01ea">>, <<"\\u01ec">>, <<"\\u01ee">>, <<"\\u01f1">>,
    <<"\\u01f2">>, <<"\\u01f4">>, <<"\\u01f6">>, <<"\\u01f7">>, <<"\\u01f8">>, <<"\\u01fa">>,
    <<"\\u01fc">>, <<"\\u01fe">>, <<"\\u0200">>, <<"\\u0202">>, <<"\\u0204">>, <<"\\u0206">>,
    <<"\\u0208">>, <<"\\u020a">>, <<"\\u020c">>, <<"\\u020e">>, <<"\\u0210">>, <<"\\u0212">>,
    <<"\\u0214">>, <<"\\u0216">>, <<"\\u0218">>, <<"\\u021a">>, <<"\\u021c">>, <<"\\u021e">>,
    <<"\\u0220">>, <<"\\u0222">>, <<"\\u0224">>, <<"\\u0226">>, <<"\\u0228">>, <<"\\u022a">>,
    <<"\\u022c">>, <<"\\u022e">>, <<"\\u0230">>, <<"\\u0232">>, <<"\\u023a">>, <<"\\u023b">>,
    <<"\\u023d">>, <<"\\u023e">>, <<"\\u0241">>, <<"\\u0243">>, <<"\\u0244">>, <<"\\u0245">>,
    <<"\\u0246">>, <<"\\u0248">>, <<"\\u024a">>, <<"\\u024c">>, <<"\\u024e">>, <<"\\u0370">>,
    <<"\\u0372">>, <<"\\u0376">>, <<"\\u037f">>, <<"\\u0386">>, <<"\\u0388">>, <<"\\u0389">>,
    <<"\\u038a">>, <<"\\u038c">>, <<"\\u038e">>, <<"\\u038f">>, <<"\\u0391">>, <<"\\u0392">>,
    <<"\\u0393">>, <<"\\u0394">>, <<"\\u0395">>, <<"\\u0396">>, <<"\\u0397">>, <<"\\u0398">>,
    <<"\\u0399">>, <<"\\u039a">>, <<"\\u039b">>, <<"\\u039c">>, <<"\\u039d">>, <<"\\u039e">>,
    <<"\\u039f">>, <<"\\u03a0">>, <<"\\u03a1">>, <<"\\u03a3">>, <<"\\u03a4">>, <<"\\u03a5">>,
    <<"\\u03a6">>, <<"\\u03a7">>, <<"\\u03a8">>, <<"\\u03a9">>, <<"\\u03aa">>, <<"\\u03ab">>,
    <<"\\u03cf">>, <<"\\u03d8">>, <<"\\u03da">>, <<"\\u03dc">>, <<"\\u03de">>, <<"\\u03e0">>,
    <<"\\u03e2">>, <<"\\u03e4">>, <<"\\u03e6">>, <<"\\u03e8">>, <<"\\u03ea">>, <<"\\u03ec">>,
    <<"\\u03ee">>, <<"\\u03f4">>, <<"\\u03f7">>, <<"\\u03f9">>, <<"\\u03fa">>, <<"\\u03fd">>,
    <<"\\u03fe">>, <<"\\u03ff">>, <<"\\u0400">>, <<"\\u0401">>, <<"\\u0402">>, <<"\\u0403">>,
    <<"\\u0404">>, <<"\\u0405">>, <<"\\u0406">>, <<"\\u0407">>, <<"\\u0408">>, <<"\\u0409">>,
    <<"\\u040a">>, <<"\\u040b">>, <<"\\u040c">>, <<"\\u040d">>, <<"\\u040e">>, <<"\\u040f">>,
    <<"\\u0410">>, <<"\\u0411">>, <<"\\u0412">>, <<"\\u0413">>, <<"\\u0414">>, <<"\\u0415">>,
    <<"\\u0416">>, <<"\\u0417">>, <<"\\u0418">>, <<"\\u0419">>, <<"\\u041a">>, <<"\\u041b">>,
    <<"\\u041c">>, <<"\\u041d">>, <<"\\u041e">>, <<"\\u041f">>, <<"\\u0420">>, <<"\\u0421">>,
    <<"\\u0422">>, <<"\\u0423">>, <<"\\u0424">>, <<"\\u0425">>, <<"\\u0426">>, <<"\\u0427">>,
    <<"\\u0428">>, <<"\\u0429">>, <<"\\u042a">>, <<"\\u042b">>, <<"\\u042c">>, <<"\\u042d">>,
    <<"\\u042e">>, <<"\\u042f">>, <<"\\u0460">>, <<"\\u0462">>, <<"\\u0464">>, <<"\\u0466">>,
    <<"\\u0468">>, <<"\\u046a">>, <<"\\u046c">>, <<"\\u046e">>, <<"\\u0470">>, <<"\\u0472">>,
    <<"\\u0474">>, <<"\\u0476">>, <<"\\u0478">>, <<"\\u047a">>, <<"\\u047c">>, <<"\\u047e">>,
    <<"\\u0480">>, <<"\\u048a">>, <<"\\u048c">>, <<"\\u048e">>, <<"\\u0490">>, <<"\\u0492">>,
    <<"\\u0494">>, <<"\\u0496">>, <<"\\u0498">>, <<"\\u049a">>, <<"\\u049c">>, <<"\\u049e">>,
    <<"\\u04a0">>, <<"\\u04a2">>, <<"\\u04a4">>, <<"\\u04a6">>, <<"\\u04a8">>, <<"\\u04aa">>,
    <<"\\u04ac">>, <<"\\u04ae">>, <<"\\u04b0">>, <<"\\u04b2">>, <<"\\u04b4">>, <<"\\u04b6">>,
    <<"\\u04b8">>, <<"\\u04ba">>, <<"\\u04bc">>, <<"\\u04be">>, <<"\\u04c0">>, <<"\\u04c1">>,
    <<"\\u04c3">>, <<"\\u04c5">>, <<"\\u04c7">>, <<"\\u04c9">>, <<"\\u04cb">>, <<"\\u04cd">>,
    <<"\\u04d0">>, <<"\\u04d2">>, <<"\\u04d4">>, <<"\\u04d6">>, <<"\\u04d8">>, <<"\\u04da">>,
    <<"\\u04dc">>, <<"\\u04de">>, <<"\\u04e0">>, <<"\\u04e2">>, <<"\\u04e4">>, <<"\\u04e6">>,
    <<"\\u04e8">>, <<"\\u04ea">>, <<"\\u04ec">>, <<"\\u04ee">>, <<"\\u04f0">>, <<"\\u04f2">>,
    <<"\\u04f4">>, <<"\\u04f6">>, <<"\\u04f8">>, <<"\\u04fa">>, <<"\\u04fc">>, <<"\\u04fe">>,
    <<"\\u0500">>, <<"\\u0502">>, <<"\\u0504">>, <<"\\u0506">>, <<"\\u0508">>, <<"\\u050a">>,
    <<"\\u050c">>, <<"\\u050e">>, <<"\\u0510">>, <<"\\u0512">>, <<"\\u0514">>, <<"\\u0516">>,
    <<"\\u0518">>, <<"\\u051a">>, <<"\\u051c">>, <<"\\u051e">>, <<"\\u0520">>, <<"\\u0522">>,
    <<"\\u0524">>, <<"\\u0526">>, <<"\\u0528">>, <<"\\u052a">>, <<"\\u052c">>, <<"\\u052e">>,
    <<"\\u0531">>, <<"\\u0532">>, <<"\\u0533">>, <<"\\u0534">>, <<"\\u0535">>, <<"\\u0536">>,
    <<"\\u0537">>, <<"\\u0538">>, <<"\\u0539">>, <<"\\u053a">>, <<"\\u053b">>, <<"\\u053c">>,
    <<"\\u053d">>, <<"\\u053e">>, <<"\\u053f">>, <<"\\u0540">>, <<"\\u0541">>, <<"\\u0542">>,
    <<"\\u0543">>, <<"\\u0544">>, <<"\\u0545">>, <<"\\u0546">>, <<"\\u0547">>, <<"\\u0548">>,
    <<"\\u0549">>, <<"\\u054a">>, <<"\\u054b">>, <<"\\u054c">>, <<"\\u054d">>, <<"\\u054e">>,
    <<"\\u054f">>, <<"\\u0550">>, <<"\\u0551">>, <<"\\u0552">>, <<"\\u0553">>, <<"\\u0554">>,
    <<"\\u0555">>, <<"\\u0556">>, <<"\\u10a0">>, <<"\\u10a1">>, <<"\\u10a2">>, <<"\\u10a3">>,
    <<"\\u10a4">>, <<"\\u10a5">>, <<"\\u10a6">>, <<"\\u10a7">>, <<"\\u10a8">>, <<"\\u10a9">>,
    <<"\\u10aa">>, <<"\\u10ab">>, <<"\\u10ac">>, <<"\\u10ad">>, <<"\\u10ae">>, <<"\\u10af">>,
    <<"\\u10b0">>, <<"\\u10b1">>, <<"\\u10b2">>, <<"\\u10b3">>, <<"\\u10b4">>, <<"\\u10b5">>,
    <<"\\u10b6">>, <<"\\u10b7">>, <<"\\u10b8">>, <<"\\u10b9">>, <<"\\u10ba">>, <<"\\u10bb">>,
    <<"\\u10bc">>, <<"\\u10bd">>, <<"\\u10be">>, <<"\\u10bf">>, <<"\\u10c0">>, <<"\\u10c1">>,
    <<"\\u10c2">>, <<"\\u10c3">>, <<"\\u10c4">>, <<"\\u10c5">>, <<"\\u10c7">>, <<"\\u10cd">>,
    <<"\\u13a0">>, <<"\\u13a1">>, <<"\\u13a2">>, <<"\\u13a3">>, <<"\\u13a4">>, <<"\\u13a5">>,
    <<"\\u13a6">>, <<"\\u13a7">>, <<"\\u13a8">>, <<"\\u13a9">>, <<"\\u13aa">>, <<"\\u13ab">>,
    <<"\\u13ac">>, <<"\\u13ad">>, <<"\\u13ae">>, <<"\\u13af">>, <<"\\u13b0">>, <<"\\u13b1">>,
    <<"\\u13b2">>, <<"\\u13b3">>, <<"\\u13b4">>, <<"\\u13b5">>, <<"\\u13b6">>, <<"\\u13b7">>,
    <<"\\u13b8">>, <<"\\u13b9">>, <<"\\u13ba">>, <<"\\u13bb">>, <<"\\u13bc">>, <<"\\u13bd">>,
    <<"\\u13be">>, <<"\\u13bf">>, <<"\\u13c0">>, <<"\\u13c1">>, <<"\\u13c2">>, <<"\\u13c3">>,
    <<"\\u13c4">>, <<"\\u13c5">>, <<"\\u13c6">>, <<"\\u13c7">>, <<"\\u13c8">>, <<"\\u13c9">>,
    <<"\\u13ca">>, <<"\\u13cb">>, <<"\\u13cc">>, <<"\\u13cd">>, <<"\\u13ce">>, <<"\\u13cf">>,
    <<"\\u13d0">>, <<"\\u13d1">>, <<"\\u13d2">>, <<"\\u13d3">>, <<"\\u13d4">>, <<"\\u13d5">>,
    <<"\\u13d6">>, <<"\\u13d7">>, <<"\\u13d8">>, <<"\\u13d9">>, <<"\\u13da">>, <<"\\u13db">>,
    <<"\\u13dc">>, <<"\\u13dd">>, <<"\\u13de">>, <<"\\u13df">>, <<"\\u13e0">>, <<"\\u13e1">>,
    <<"\\u13e2">>, <<"\\u13e3">>, <<"\\u13e4">>, <<"\\u13e5">>, <<"\\u13e6">>, <<"\\u13e7">>,
    <<"\\u13e8">>, <<"\\u13e9">>, <<"\\u13ea">>, <<"\\u13eb">>, <<"\\u13ec">>, <<"\\u13ed">>,
    <<"\\u13ee">>, <<"\\u13ef">>, <<"\\u13f0">>, <<"\\u13f1">>, <<"\\u13f2">>, <<"\\u13f3">>,
    <<"\\u13f4">>, <<"\\u13f5">>, <<"\\u1c89">>, <<"\\u1c90">>, <<"\\u1c91">>, <<"\\u1c92">>,
    <<"\\u1c93">>, <<"\\u1c94">>, <<"\\u1c95">>, <<"\\u1c96">>, <<"\\u1c97">>, <<"\\u1c98">>,
    <<"\\u1c99">>, <<"\\u1c9a">>, <<"\\u1c9b">>, <<"\\u1c9c">>, <<"\\u1c9d">>, <<"\\u1c9e">>,
    <<"\\u1c9f">>, <<"\\u1ca0">>, <<"\\u1ca1">>, <<"\\u1ca2">>, <<"\\u1ca3">>, <<"\\u1ca4">>,
    <<"\\u1ca5">>, <<"\\u1ca6">>, <<"\\u1ca7">>, <<"\\u1ca8">>, <<"\\u1ca9">>, <<"\\u1caa">>,
    <<"\\u1cab">>, <<"\\u1cac">>, <<"\\u1cad">>, <<"\\u1cae">>, <<"\\u1caf">>, <<"\\u1cb0">>,
    <<"\\u1cb1">>, <<"\\u1cb2">>, <<"\\u1cb3">>, <<"\\u1cb4">>, <<"\\u1cb5">>, <<"\\u1cb6">>,
    <<"\\u1cb7">>, <<"\\u1cb8">>, <<"\\u1cb9">>, <<"\\u1cba">>, <<"\\u1cbd">>, <<"\\u1cbe">>,
    <<"\\u1cbf">>, <<"\\u1e00">>, <<"\\u1e02">>, <<"\\u1e04">>, <<"\\u1e06">>, <<"\\u1e08">>,
    <<"\\u1e0a">>, <<"\\u1e0c">>, <<"\\u1e0e">>, <<"\\u1e10">>, <<"\\u1e12">>, <<"\\u1e14">>,
    <<"\\u1e16">>, <<"\\u1e18">>, <<"\\u1e1a">>, <<"\\u1e1c">>, <<"\\u1e1e">>, <<"\\u1e20">>,
    <<"\\u1e22">>, <<"\\u1e24">>, <<"\\u1e26">>, <<"\\u1e28">>, <<"\\u1e2a">>, <<"\\u1e2c">>,
    <<"\\u1e2e">>, <<"\\u1e30">>, <<"\\u1e32">>, <<"\\u1e34">>, <<"\\u1e36">>, <<"\\u1e38">>,
    <<"\\u1e3a">>, <<"\\u1e3c">>, <<"\\u1e3e">>, <<"\\u1e40">>, <<"\\u1e42">>, <<"\\u1e44">>,
    <<"\\u1e46">>, <<"\\u1e48">>, <<"\\u1e4a">>, <<"\\u1e4c">>, <<"\\u1e4e">>, <<"\\u1e50">>,
    <<"\\u1e52">>, <<"\\u1e54">>, <<"\\u1e56">>, <<"\\u1e58">>, <<"\\u1e5a">>, <<"\\u1e5c">>,
    <<"\\u1e5e">>, <<"\\u1e60">>, <<"\\u1e62">>, <<"\\u1e64">>, <<"\\u1e66">>, <<"\\u1e68">>,
    <<"\\u1e6a">>, <<"\\u1e6c">>, <<"\\u1e6e">>, <<"\\u1e70">>, <<"\\u1e72">>, <<"\\u1e74">>,
    <<"\\u1e76">>, <<"\\u1e78">>, <<"\\u1e7a">>, <<"\\u1e7c">>, <<"\\u1e7e">>, <<"\\u1e80">>,
    <<"\\u1e82">>, <<"\\u1e84">>, <<"\\u1e86">>, <<"\\u1e88">>, <<"\\u1e8a">>, <<"\\u1e8c">>,
    <<"\\u1e8e">>, <<"\\u1e90">>, <<"\\u1e92">>, <<"\\u1e94">>, <<"\\u1e9e">>, <<"\\u1ea0">>,
    <<"\\u1ea2">>, <<"\\u1ea4">>, <<"\\u1ea6">>, <<"\\u1ea8">>, <<"\\u1eaa">>, <<"\\u1eac">>,
    <<"\\u1eae">>, <<"\\u1eb0">>, <<"\\u1eb2">>, <<"\\u1eb4">>, <<"\\u1eb6">>, <<"\\u1eb8">>,
    <<"\\u1eba">>, <<"\\u1ebc">>, <<"\\u1ebe">>, <<"\\u1ec0">>, <<"\\u1ec2">>, <<"\\u1ec4">>,
    <<"\\u1ec6">>, <<"\\u1ec8">>, <<"\\u1eca">>, <<"\\u1ecc">>, <<"\\u1ece">>, <<"\\u1ed0">>,
    <<"\\u1ed2">>, <<"\\u1ed4">>, <<"\\u1ed6">>, <<"\\u1ed8">>, <<"\\u1eda">>, <<"\\u1edc">>,
    <<"\\u1ede">>, <<"\\u1ee0">>, <<"\\u1ee2">>, <<"\\u1ee4">>, <<"\\u1ee6">>, <<"\\u1ee8">>,
    <<"\\u1eea">>, <<"\\u1eec">>, <<"\\u1eee">>, <<"\\u1ef0">>, <<"\\u1ef2">>, <<"\\u1ef4">>,
    <<"\\u1ef6">>, <<"\\u1ef8">>, <<"\\u1efa">>, <<"\\u1efc">>, <<"\\u1efe">>, <<"\\u1f08">>,
    <<"\\u1f09">>, <<"\\u1f0a">>, <<"\\u1f0b">>, <<"\\u1f0c">>, <<"\\u1f0d">>, <<"\\u1f0e">>,
    <<"\\u1f0f">>, <<"\\u1f18">>, <<"\\u1f19">>, <<"\\u1f1a">>, <<"\\u1f1b">>, <<"\\u1f1c">>,
    <<"\\u1f1d">>, <<"\\u1f28">>, <<"\\u1f29">>, <<"\\u1f2a">>, <<"\\u1f2b">>, <<"\\u1f2c">>,
    <<"\\u1f2d">>, <<"\\u1f2e">>, <<"\\u1f2f">>, <<"\\u1f38">>, <<"\\u1f39">>, <<"\\u1f3a">>,
    <<"\\u1f3b">>, <<"\\u1f3c">>, <<"\\u1f3d">>, <<"\\u1f3e">>, <<"\\u1f3f">>, <<"\\u1f48">>,
    <<"\\u1f49">>, <<"\\u1f4a">>, <<"\\u1f4b">>, <<"\\u1f4c">>, <<"\\u1f4d">>, <<"\\u1f59">>,
    <<"\\u1f5b">>, <<"\\u1f5d">>, <<"\\u1f5f">>, <<"\\u1f68">>, <<"\\u1f69">>, <<"\\u1f6a">>,
    <<"\\u1f6b">>, <<"\\u1f6c">>, <<"\\u1f6d">>, <<"\\u1f6e">>, <<"\\u1f6f">>, <<"\\u1f88">>,
    <<"\\u1f89">>, <<"\\u1f8a">>, <<"\\u1f8b">>, <<"\\u1f8c">>, <<"\\u1f8d">>, <<"\\u1f8e">>,
    <<"\\u1f8f">>, <<"\\u1f98">>, <<"\\u1f99">>, <<"\\u1f9a">>, <<"\\u1f9b">>, <<"\\u1f9c">>,
    <<"\\u1f9d">>, <<"\\u1f9e">>, <<"\\u1f9f">>, <<"\\u1fa8">>, <<"\\u1fa9">>, <<"\\u1faa">>,
    <<"\\u1fab">>, <<"\\u1fac">>, <<"\\u1fad">>, <<"\\u1fae">>, <<"\\u1faf">>, <<"\\u1fb8">>,
    <<"\\u1fb9">>, <<"\\u1fba">>, <<"\\u1fbb">>, <<"\\u1fbc">>, <<"\\u1fc8">>, <<"\\u1fc9">>,
    <<"\\u1fca">>, <<"\\u1fcb">>, <<"\\u1fcc">>, <<"\\u1fd8">>, <<"\\u1fd9">>, <<"\\u1fda">>,
    <<"\\u1fdb">>, <<"\\u1fe8">>, <<"\\u1fe9">>, <<"\\u1fea">>, <<"\\u1feb">>, <<"\\u1fec">>,
    <<"\\u1ff8">>, <<"\\u1ff9">>, <<"\\u1ffa">>, <<"\\u1ffb">>, <<"\\u1ffc">>, <<"\\u2126">>,
    <<"\\u212a">>, <<"\\u212b">>, <<"\\u2132">>, <<"\\u2160">>, <<"\\u2161">>, <<"\\u2162">>,
    <<"\\u2163">>, <<"\\u2164">>, <<"\\u2165">>, <<"\\u2166">>, <<"\\u2167">>, <<"\\u2168">>,
    <<"\\u2169">>, <<"\\u216a">>, <<"\\u216b">>, <<"\\u216c">>, <<"\\u216d">>, <<"\\u216e">>,
    <<"\\u216f">>, <<"\\u2183">>, <<"\\u24b6">>, <<"\\u24b7">>, <<"\\u24b8">>, <<"\\u24b9">>,
    <<"\\u24ba">>, <<"\\u24bb">>, <<"\\u24bc">>, <<"\\u24bd">>, <<"\\u24be">>, <<"\\u24bf">>,
    <<"\\u24c0">>, <<"\\u24c1">>, <<"\\u24c2">>, <<"\\u24c3">>, <<"\\u24c4">>, <<"\\u24c5">>,
    <<"\\u24c6">>, <<"\\u24c7">>, <<"\\u24c8">>, <<"\\u24c9">>, <<"\\u24ca">>, <<"\\u24cb">>,
    <<"\\u24cc">>, <<"\\u24cd">>, <<"\\u24ce">>, <<"\\u24cf">>, <<"\\u2c00">>, <<"\\u2c01">>,
    <<"\\u2c02">>, <<"\\u2c03">>, <<"\\u2c04">>, <<"\\u2c05">>, <<"\\u2c06">>, <<"\\u2c07">>,
    <<"\\u2c08">>, <<"\\u2c09">>, <<"\\u2c0a">>, <<"\\u2c0b">>, <<"\\u2c0c">>, <<"\\u2c0d">>,
    <<"\\u2c0e">>, <<"\\u2c0f">>, <<"\\u2c10">>, <<"\\u2c11">>, <<"\\u2c12">>, <<"\\u2c13">>,
    <<"\\u2c14">>, <<"\\u2c15">>, <<"\\u2c16">>, <<"\\u2c17">>, <<"\\u2c18">>, <<"\\u2c19">>,
    <<"\\u2c1a">>, <<"\\u2c1b">>, <<"\\u2c1c">>, <<"\\u2c1d">>, <<"\\u2c1e">>, <<"\\u2c1f">>,
    <<"\\u2c20">>, <<"\\u2c21">>, <<"\\u2c22">>, <<"\\u2c23">>, <<"\\u2c24">>, <<"\\u2c25">>,
    <<"\\u2c26">>, <<"\\u2c27">>, <<"\\u2c28">>, <<"\\u2c29">>, <<"\\u2c2a">>, <<"\\u2c2b">>,
    <<"\\u2c2c">>, <<"\\u2c2d">>, <<"\\u2c2e">>, <<"\\u2c2f">>, <<"\\u2c60">>, <<"\\u2c62">>,
    <<"\\u2c63">>, <<"\\u2c64">>, <<"\\u2c67">>, <<"\\u2c69">>, <<"\\u2c6b">>, <<"\\u2c6d">>,
    <<"\\u2c6e">>, <<"\\u2c6f">>, <<"\\u2c70">>, <<"\\u2c72">>, <<"\\u2c75">>, <<"\\u2c7e">>,
    <<"\\u2c7f">>, <<"\\u2c80">>, <<"\\u2c82">>, <<"\\u2c84">>, <<"\\u2c86">>, <<"\\u2c88">>,
    <<"\\u2c8a">>, <<"\\u2c8c">>, <<"\\u2c8e">>, <<"\\u2c90">>, <<"\\u2c92">>, <<"\\u2c94">>,
    <<"\\u2c96">>, <<"\\u2c98">>, <<"\\u2c9a">>, <<"\\u2c9c">>, <<"\\u2c9e">>, <<"\\u2ca0">>,
    <<"\\u2ca2">>, <<"\\u2ca4">>, <<"\\u2ca6">>, <<"\\u2ca8">>, <<"\\u2caa">>, <<"\\u2cac">>,
    <<"\\u2cae">>, <<"\\u2cb0">>, <<"\\u2cb2">>, <<"\\u2cb4">>, <<"\\u2cb6">>, <<"\\u2cb8">>,
    <<"\\u2cba">>, <<"\\u2cbc">>, <<"\\u2cbe">>, <<"\\u2cc0">>, <<"\\u2cc2">>, <<"\\u2cc4">>,
    <<"\\u2cc6">>, <<"\\u2cc8">>, <<"\\u2cca">>, <<"\\u2ccc">>, <<"\\u2cce">>, <<"\\u2cd0">>,
    <<"\\u2cd2">>, <<"\\u2cd4">>, <<"\\u2cd6">>, <<"\\u2cd8">>, <<"\\u2cda">>, <<"\\u2cdc">>,
    <<"\\u2cde">>, <<"\\u2ce0">>, <<"\\u2ce2">>, <<"\\u2ceb">>, <<"\\u2ced">>, <<"\\u2cf2">>,
    <<"\\ua640">>, <<"\\ua642">>, <<"\\ua644">>, <<"\\ua646">>, <<"\\ua648">>, <<"\\ua64a">>,
    <<"\\ua64c">>, <<"\\ua64e">>, <<"\\ua650">>, <<"\\ua652">>, <<"\\ua654">>, <<"\\ua656">>,
    <<"\\ua658">>, <<"\\ua65a">>, <<"\\ua65c">>, <<"\\ua65e">>, <<"\\ua660">>, <<"\\ua662">>,
    <<"\\ua664">>, <<"\\ua666">>, <<"\\ua668">>, <<"\\ua66a">>, <<"\\ua66c">>, <<"\\ua680">>,
    <<"\\ua682">>, <<"\\ua684">>, <<"\\ua686">>, <<"\\ua688">>, <<"\\ua68a">>, <<"\\ua68c">>,
    <<"\\ua68e">>, <<"\\ua690">>, <<"\\ua692">>, <<"\\ua694">>, <<"\\ua696">>, <<"\\ua698">>,
    <<"\\ua69a">>, <<"\\ua722">>, <<"\\ua724">>, <<"\\ua726">>, <<"\\ua728">>, <<"\\ua72a">>,
    <<"\\ua72c">>, <<"\\ua72e">>, <<"\\ua732">>, <<"\\ua734">>, <<"\\ua736">>, <<"\\ua738">>,
    <<"\\ua73a">>, <<"\\ua73c">>, <<"\\ua73e">>, <<"\\ua740">>, <<"\\ua742">>, <<"\\ua744">>,
    <<"\\ua746">>, <<"\\ua748">>, <<"\\ua74a">>, <<"\\ua74c">>, <<"\\ua74e">>, <<"\\ua750">>,
    <<"\\ua752">>, <<"\\ua754">>, <<"\\ua756">>, <<"\\ua758">>, <<"\\ua75a">>, <<"\\ua75c">>,
    <<"\\ua75e">>, <<"\\ua760">>, <<"\\ua762">>, <<"\\ua764">>, <<"\\ua766">>, <<"\\ua768">>,
    <<"\\ua76a">>, <<"\\ua76c">>, <<"\\ua76e">>, <<"\\ua779">>, <<"\\ua77b">>, <<"\\ua77d">>,
    <<"\\ua77e">>, <<"\\ua780">>, <<"\\ua782">>, <<"\\ua784">>, <<"\\ua786">>, <<"\\ua78b">>,
    <<"\\ua78d">>, <<"\\ua790">>, <<"\\ua792">>, <<"\\ua796">>, <<"\\ua798">>, <<"\\ua79a">>,
    <<"\\ua79c">>, <<"\\ua79e">>, <<"\\ua7a0">>, <<"\\ua7a2">>, <<"\\ua7a4">>, <<"\\ua7a6">>,
    <<"\\ua7a8">>, <<"\\ua7aa">>, <<"\\ua7ab">>, <<"\\ua7ac">>, <<"\\ua7ad">>, <<"\\ua7ae">>,
    <<"\\ua7b0">>, <<"\\ua7b1">>, <<"\\ua7b2">>, <<"\\ua7b3">>, <<"\\ua7b4">>, <<"\\ua7b6">>,
    <<"\\ua7b8">>, <<"\\ua7ba">>, <<"\\ua7bc">>, <<"\\ua7be">>, <<"\\ua7c0">>, <<"\\ua7c2">>,
    <<"\\ua7c4">>, <<"\\ua7c5">>, <<"\\ua7c6">>, <<"\\ua7c7">>, <<"\\ua7c9">>, <<"\\ua7cb">>,
    <<"\\ua7cc">>, <<"\\ua7ce">>, <<"\\ua7d0">>, <<"\\ua7d2">>, <<"\\ua7d4">>, <<"\\ua7d6">>,
    <<"\\ua7d8">>, <<"\\ua7da">>, <<"\\ua7dc">>, <<"\\ua7f5">>, <<"\\uff21">>, <<"\\uff22">>,
    <<"\\uff23">>, <<"\\uff24">>, <<"\\uff25">>, <<"\\uff26">>, <<"\\uff27">>, <<"\\uff28">>,
    <<"\\uff29">>, <<"\\uff2a">>, <<"\\uff2b">>, <<"\\uff2c">>, <<"\\uff2d">>, <<"\\uff2e">>,
    <<"\\uff2f">>, <<"\\uff30">>, <<"\\uff31">>, <<"\\uff32">>, <<"\\uff33">>, <<"\\uff34">>,
    <<"\\uff35">>, <<"\\uff36">>, <<"\\uff37">>, <<"\\uff38">>, <<"\\uff39">>, <<"\\uff3a">>,
    <<"\\ud801", "\\udc00">>, <<"\\ud801", "\\udc01">>, <<"\\ud801", "\\udc02">>,
    <<"\\ud801", "\\udc03">>, <<"\\ud801", "\\udc04">>, <<"\\ud801", "\\udc05">>,
    <<"\\ud801", "\\udc06">>, <<"\\ud801", "\\udc07">>, <<"\\ud801", "\\udc08">>,
    <<"\\ud801", "\\udc09">>, <<"\\ud801", "\\udc0a">>, <<"\\ud801", "\\udc0b">>,
    <<"\\ud801", "\\udc0c">>, <<"\\ud801", "\\udc0d">>, <<"\\ud801", "\\udc0e">>,
    <<"\\ud801", "\\udc0f">>, <<"\\ud801", "\\udc10">>, <<"\\ud801", "\\udc11">>,
    <<"\\ud801", "\\udc12">>, <<"\\ud801", "\\udc13">>, <<"\\ud801", "\\udc14">>,
    <<"\\ud801", "\\udc15">>, <<"\\ud801", "\\udc16">>, <<"\\ud801", "\\udc17">>,
    <<"\\ud801", "\\udc18">>, <<"\\ud801", "\\udc19">>, <<"\\ud801", "\\udc1a">>,
    <<"\\ud801", "\\udc1b">>, <<"\\ud801", "\\udc1c">>, <<"\\ud801", "\\udc1d">>,
    <<"\\ud801", "\\udc1e">>, <<"\\ud801", "\\udc1f">>, <<"\\ud801", "\\udc20">>,
    <<"\\ud801", "\\udc21">>, <<"\\ud801", "\\udc22">>, <<"\\ud801", "\\udc23">>,
    <<"\\ud801", "\\udc24">>, <<"\\ud801", "\\udc25">>, <<"\\ud801", "\\udc26">>,
    <<"\\ud801", "\\udc27">>, <<"\\ud801", "\\udcb0">>, <<"\\ud801", "\\udcb1">>,
    <<"\\ud801", "\\udcb2">>, <<"\\ud801", "\\udcb3">>, <<"\\ud801", "\\udcb4">>,
    <<"\\ud801", "\\udcb5">>, <<"\\ud801", "\\udcb6">>, <<"\\ud801", "\\udcb7">>,
    <<"\\ud801", "\\udcb8">>, <<"\\ud801", "\\udcb9">>, <<"\\ud801", "\\udcba">>,
    <<"\\ud801", "\\udcbb">>, <<"\\ud801", "\\udcbc">>, <<"\\ud801", "\\udcbd">>,
    <<"\\ud801", "\\udcbe">>, <<"\\ud801", "\\udcbf">>, <<"\\ud801", "\\udcc0">>,
    <<"\\ud801", "\\udcc1">>, <<"\\ud801", "\\udcc2">>, <<"\\ud801", "\\udcc3">>,
    <<"\\ud801", "\\udcc4">>, <<"\\ud801", "\\udcc5">>, <<"\\ud801", "\\udcc6">>,
    <<"\\ud801", "\\udcc7">>, <<"\\ud801", "\\udcc8">>, <<"\\ud801", "\\udcc9">>,
    <<"\\ud801", "\\udcca">>, <<"\\ud801", "\\udccb">>, <<"\\ud801", "\\udccc">>,
    <<"\\ud801", "\\udccd">>, <<"\\ud801", "\\udcce">>, <<"\\ud801", "\\udccf">>,
    <<"\\ud801", "\\udcd0">>, <<"\\ud801", "\\udcd1">>, <<"\\ud801", "\\udcd2">>,
    <<"\\ud801", "\\udcd3">>, <<"\\ud801", "\\udd70">>, <<"\\ud801", "\\udd71">>,
    <<"\\ud801", "\\udd72">>, <<"\\ud801", "\\udd73">>, <<"\\ud801", "\\udd74">>,
    <<"\\ud801", "\\udd75">>, <<"\\ud801", "\\udd76">>, <<"\\ud801", "\\udd77">>,
    <<"\\ud801", "\\udd78">>, <<"\\ud801", "\\udd79">>, <<"\\ud801", "\\udd7a">>,
    <<"\\ud801", "\\udd7c">>, <<"\\ud801", "\\udd7d">>, <<"\\ud801", "\\udd7e">>,
    <<"\\ud801", "\\udd7f">>, <<"\\ud801", "\\udd80">>, <<"\\ud801", "\\udd81">>,
    <<"\\ud801", "\\udd82">>, <<"\\ud801", "\\udd83">>, <<"\\ud801", "\\udd84">>,
    <<"\\ud801", "\\udd85">>, <<"\\ud801", "\\udd86">>, <<"\\ud801", "\\udd87">>,
    <<"\\ud801", "\\udd88">>, <<"\\ud801", "\\udd89">>, <<"\\ud801", "\\udd8a">>,
    <<"\\ud801", "\\udd8c">>, <<"\\ud801", "\\udd8d">>, <<"\\ud801", "\\udd8e">>,
    <<"\\ud801", "\\udd8f">>, <<"\\ud801", "\\udd90">>, <<"\\ud801", "\\udd91">>,
    <<"\\ud801", "\\udd92">>, <<"\\ud801", "\\udd94">>, <<"\\ud801", "\\udd95">>,
    <<"\\ud803", "\\udc80">>, <<"\\ud803", "\\udc81">>, <<"\\ud803", "\\udc82">>,
    <<"\\ud803", "\\udc83">>, <<"\\ud803", "\\udc84">>, <<"\\ud803", "\\udc85">>,
    <<"\\ud803", "\\udc86">>, <<"\\ud803", "\\udc87">>, <<"\\ud803", "\\udc88">>,
    <<"\\ud803", "\\udc89">>, <<"\\ud803", "\\udc8a">>, <<"\\ud803", "\\udc8b">>,
    <<"\\ud803", "\\udc8c">>, <<"\\ud803", "\\udc8d">>, <<"\\ud803", "\\udc8e">>,
    <<"\\ud803", "\\udc8f">>, <<"\\ud803", "\\udc90">>, <<"\\ud803", "\\udc91">>,
    <<"\\ud803", "\\udc92">>, <<"\\ud803", "\\udc93">>, <<"\\ud803", "\\udc94">>,
    <<"\\ud803", "\\udc95">>, <<"\\ud803", "\\udc96">>, <<"\\ud803", "\\udc97">>,
    <<"\\ud803", "\\udc98">>, <<"\\ud803", "\\udc99">>, <<"\\ud803", "\\udc9a">>,
    <<"\\ud803", "\\udc9b">>, <<"\\ud803", "\\udc9c">>, <<"\\ud803", "\\udc9d">>,
    <<"\\ud803", "\\udc9e">>, <<"\\ud803", "\\udc9f">>, <<"\\ud803", "\\udca0">>,
    <<"\\ud803", "\\udca1">>, <<"\\ud803", "\\udca2">>, <<"\\ud803", "\\udca3">>,
    <<"\\ud803", "\\udca4">>, <<"\\ud803", "\\udca5">>, <<"\\ud803", "\\udca6">>,
    <<"\\ud803", "\\udca7">>, <<"\\ud803", "\\udca8">>, <<"\\ud803", "\\udca9">>,
    <<"\\ud803", "\\udcaa">>, <<"\\ud803", "\\udcab">>, <<"\\ud803", "\\udcac">>,
    <<"\\ud803", "\\udcad">>, <<"\\ud803", "\\udcae">>, <<"\\ud803", "\\udcaf">>,
    <<"\\ud803", "\\udcb0">>, <<"\\ud803", "\\udcb1">>, <<"\\ud803", "\\udcb2">>,
    <<"\\ud803", "\\udd50">>, <<"\\ud803", "\\udd51">>, <<"\\ud803", "\\udd52">>,
    <<"\\ud803", "\\udd53">>, <<"\\ud803", "\\udd54">>, <<"\\ud803", "\\udd55">>,
    <<"\\ud803", "\\udd56">>, <<"\\ud803", "\\udd57">>, <<"\\ud803", "\\udd58">>,
    <<"\\ud803", "\\udd59">>, <<"\\ud803", "\\udd5a">>, <<"\\ud803", "\\udd5b">>,
    <<"\\ud803", "\\udd5c">>, <<"\\ud803", "\\udd5d">>, <<"\\ud803", "\\udd5e">>,
    <<"\\ud803", "\\udd5f">>, <<"\\ud803", "\\udd60">>, <<"\\ud803", "\\udd61">>,
    <<"\\ud803", "\\udd62">>, <<"\\ud803", "\\udd63">>, <<"\\ud803", "\\udd64">>,
    <<"\\ud803", "\\udd65">>, <<"\\ud806", "\\udca0">>, <<"\\ud806", "\\udca1">>,
    <<"\\ud806", "\\udca2">>, <<"\\ud806", "\\udca3">>, <<"\\ud806", "\\udca4">>,
    <<"\\ud806", "\\udca5">>, <<"\\ud806", "\\udca6">>, <<"\\ud806", "\\udca7">>,
    <<"\\ud806", "\\udca8">>, <<"\\ud806", "\\udca9">>, <<"\\ud806", "\\udcaa">>,
    <<"\\ud806", "\\udcab">>, <<"\\ud806", "\\udcac">>, <<"\\ud806", "\\udcad">>,
    <<"\\ud806", "\\udcae">>, <<"\\ud806", "\\udcaf">>, <<"\\ud806", "\\udcb0">>,
    <<"\\ud806", "\\udcb1">>, <<"\\ud806", "\\udcb2">>, <<"\\ud806", "\\udcb3">>,
    <<"\\ud806", "\\udcb4">>, <<"\\ud806", "\\udcb5">>, <<"\\ud806", "\\udcb6">>,
    <<"\\ud806", "\\udcb7">>, <<"\\ud806", "\\udcb8">>, <<"\\ud806", "\\udcb9">>,
    <<"\\ud806", "\\udcba">>, <<"\\ud806", "\\udcbb">>, <<"\\ud806", "\\udcbc">>,
    <<"\\ud806", "\\udcbd">>, <<"\\ud806", "\\udcbe">>, <<"\\ud806", "\\udcbf">>,
    <<"\\ud81b", "\\ude40">>, <<"\\ud81b", "\\ude41">>, <<"\\ud81b", "\\ude42">>,
    <<"\\ud81b", "\\ude43">>, <<"\\ud81b", "\\ude44">>, <<"\\ud81b", "\\ude45">>,
    <<"\\ud81b", "\\ude46">>, <<"\\ud81b", "\\ude47">>, <<"\\ud81b", "\\ude48">>,
    <<"\\ud81b", "\\ude49">>, <<"\\ud81b", "\\ude4a">>, <<"\\ud81b", "\\ude4b">>,
    <<"\\ud81b", "\\ude4c">>, <<"\\ud81b", "\\ude4d">>, <<"\\ud81b", "\\ude4e">>,
    <<"\\ud81b", "\\ude4f">>, <<"\\ud81b", "\\ude50">>, <<"\\ud81b", "\\ude51">>,
    <<"\\ud81b", "\\ude52">>, <<"\\ud81b", "\\ude53">>, <<"\\ud81b", "\\ude54">>,
    <<"\\ud81b", "\\ude55">>, <<"\\ud81b", "\\ude56">>, <<"\\ud81b", "\\ude57">>,
    <<"\\ud81b", "\\ude58">>, <<"\\ud81b", "\\ude59">>, <<"\\ud81b", "\\ude5a">>,
    <<"\\ud81b", "\\ude5b">>, <<"\\ud81b", "\\ude5c">>, <<"\\ud81b", "\\ude5d">>,
    <<"\\ud81b", "\\ude5e">>, <<"\\ud81b", "\\ude5f">>, <<"\\ud81b", "\\udea0">>,
    <<"\\ud81b", "\\udea1">>, <<"\\ud81b", "\\udea2">>, <<"\\ud81b", "\\udea3">>,
    <<"\\ud81b", "\\udea4">>, <<"\\ud81b", "\\udea5">>, <<"\\ud81b", "\\udea6">>,
    <<"\\ud81b", "\\udea7">>, <<"\\ud81b", "\\udea8">>, <<"\\ud81b", "\\udea9">>,
    <<"\\ud81b", "\\udeaa">>, <<"\\ud81b", "\\udeab">>, <<"\\ud81b", "\\udeac">>,
    <<"\\ud81b", "\\udead">>, <<"\\ud81b", "\\udeae">>, <<"\\ud81b", "\\udeaf">>,
    <<"\\ud81b", "\\udeb0">>, <<"\\ud81b", "\\udeb1">>, <<"\\ud81b", "\\udeb2">>,
    <<"\\ud81b", "\\udeb3">>, <<"\\ud81b", "\\udeb4">>, <<"\\ud81b", "\\udeb5">>,
    <<"\\ud81b", "\\udeb6">>, <<"\\ud81b", "\\udeb7">>, <<"\\ud81b", "\\udeb8">>,
    <<"\\ud83a", "\\udd00">>, <<"\\ud83a", "\\udd01">>, <<"\\ud83a", "\\udd02">>,
    <<"\\ud83a", "\\udd03">>, <<"\\ud83a", "\\udd04">>, <<"\\ud83a", "\\udd05">>,
    <<"\\ud83a", "\\udd06">>, <<"\\ud83a", "\\udd07">>, <<"\\ud83a", "\\udd08">>,
    <<"\\ud83a", "\\udd09">>, <<"\\ud83a", "\\udd0a">>, <<"\\ud83a", "\\udd0b">>,
    <<"\\ud83a", "\\udd0c">>, <<"\\ud83a", "\\udd0d">>, <<"\\ud83a", "\\udd0e">>,
    <<"\\ud83a", "\\udd0f">>, <<"\\ud83a", "\\udd10">>, <<"\\ud83a", "\\udd11">>,
    <<"\\ud83a", "\\udd12">>, <<"\\ud83a", "\\udd13">>, <<"\\ud83a", "\\udd14">>,
    <<"\\ud83a", "\\udd15">>, <<"\\ud83a", "\\udd16">>, <<"\\ud83a", "\\udd17">>,
    <<"\\ud83a", "\\udd18">>, <<"\\ud83a", "\\udd19">>, <<"\\ud83a", "\\udd1a">>,
    <<"\\ud83a", "\\udd1b">>, <<"\\ud83a", "\\udd1c">>, <<"\\ud83a", "\\udd1d">>,
    <<"\\ud83a", "\\udd1e">>, <<"\\ud83a", "\\udd1f">>, <<"\\ud83a", "\\udd20">>,
    <<"\\ud83a", "\\udd21">> >>

\* The lower case of each, at the same place.
LowerCase ==
  << <<"a">>, <<"b">>, <<"c">>, <<"d">>, <<"e">>, <<"f">>, <<"g">>, <<"h">>, <<"i">>, <<"j">>,
    <<"k">>, <<"l">>, <<"m">>, <<"n">>, <<"o">>, <<"p">>, <<"q">>, <<"r">>, <<"s">>, <<"t">>,
    <<"u">>, <<"v">>, <<"w">>, <<"x">>, <<"y">>, <<"z">>, <<"\\u00e0">>, <<"\\u00e1">>,
    <<"\\u00e2">>, <<"\\u00e3">>, <<"\\u00e4">>, <<"\\u00e5">>, <<"\\u00e6">>, <<"\\u00e7">>,
    <<"\\u00e8">>, <<"\\u00e9">>, <<"\\u00ea">>, <<"\\u00eb">>, <<"\\u00ec">>, <<"\\u00ed">>,
    <<"\\u00ee">>, <<"\\u00ef">>, <<"\\u00f0">>, <<"\\u00f1">>, <<"\\u00f2">>, <<"\\u00f3">>,
    <<"\\u00f4">>, <<"\\u00f5">>, <<"\\u00f6">>, <<"\\u00f8">>, <<"\\u00f9">>, <<"\\u00fa">>,
    <<"\\u00fb">>, <<"\\u00fc">>, <<"\\u00fd">>, <<"\\u00fe">>, <<"\\u0101">>, <<"\\u0103">>,
    <<"\\u0105">>, <<"\\u0107">>, <<"\\u0109">>, <<"\\u010b">>, <<"\\u010d">>, <<"\\u010f">>,
    <<"\\u0111">>, <<"\\u0113">>, <<"\\u0115">>, <<"\\u0117">>, <<"\\u0119">>, <<"\\u011b">>,
    <<"\\u011d">>, <<"\\u011f">>, <<"\\u0121">>, <<"\\u0123">>, <<"\\u0125">>, <<"\\u0127">>,
    <<"\\u0129">>, <<"\\u012b">>, <<"\\u012d">>, <<"\\u012f">>, <<"\\u0133">>, <<"\\u0135">>,
    <<"\\u0137">>, <<"\\u013a">>, <<"\\u013c">>, <<"\\u013e">>, <<"\\u0140">>, <<"\\u0142">>,
    <<"\\u0144">>, <<"\\u0146">>, <<"\\u0148">>, <<"\\u014b">>, <<"\\u014d">>, <<"\\u014f">>,
    <<"\\u0151">>, <<"\\u0153">>, <<"\\u0155">>, <<"\\u0157">>, <<"\\u0159">>, <<"\\u015b">>,
    <<"\\u015d">>, <<"\\u015f">>, <<"\\u0161">>, <<"\\u0163">>, <<"\\u0165">>, <<"\\u0167">>,
    <<"\\u0169">>, <<"\\u016b">>, <<"\\u016d">>, <<"\\u016f">>, <<"\\u0171">>, <<"\\u0173">>,
    <<"\\u0175">>, <<"\\u0177">>, <<"\\u00ff">>, <<"\\u017a">>, <<"\\u017c">>, <<"\\u017e">>,
    <<"\\u0253">>, <<"\\u0183">>, <<"\\u0185">>, <<"\\u0254">>, <<"\\u0188">>, <<"\\u0256">>,
    <<"\\u0257">>, <<"\\u018c">>, <<"\\u01dd">>, <<"\\u0259">>, <<"\\u025b">>, <<"\\u0192">>,
    <<"\\u0260">>, <<"\\u0263">>, <<"\\u0269">>, <<"\\u0268">>, <<"\\u0199">>, <<"\\u026f">>,
    <<"\\u0272">>, <<"\\u0275">>, <<"\\u01a1">>, <<"\\u01a3">>, <<"\\u01a5">>, <<"\\u0280">>,
    <<"\\u01a8">>, <<"\\u0283">>, <<"\\u01ad">>, <<"\\u0288">>, <<"\\u01b0">>, <<"\\u028a">>,
    <<"\\u028b">>, <<"\\u01b4">>, <<"\\u01b6">>, <<"\\u0292">>, <<"\\u01b9">>, <<"\\u01bd">>,
    <<"\\u01c6">>, <<"\\u01c6">>, <<"\\u01c9">>, <<"\\u01c9">>, <<"\\u01cc">>, <<"\\u01cc">>,
    <<"\\u01ce">>, <<"\\u01d0">>, <<"\\u01d2">>, <<"\\u01d4">>, <<"\\u01d6">>, <<"\\u01d8">>,
    <<"\\u01da">>, <<"\\u01dc">>, <<"\\u01df">>, <<"\\u01e1">>, <<"\\u01e3">>, <<"\\u01e5">>,
    <<"\\u01e7">>, <<"\\u01e9">>, <<"\\u01eb">>, <<"\\u01ed">>, <<"\\u01ef">>, <<"\\u01f3">>,
    <<"\\u01f3">>, <<"\\u01f5">>, <<"\\u0195">>, <<"\\u01bf">>, <<"\\u01f9">>, <<"\\u01fb">>,
    <<"\\u01fd">>, <<"\\u01ff">>, <<"\\u0201">>, <<"\\u0203">>, <<"\\u0205">>, <<"\\u0207">>,
    <<"\\u0209">>, <<"\\u020b">>, <<"\\u020d">>, <<"\\u020f">>, <<"\\u0211">>, <<"\\u0213">>,
    <<"\\u0215">>, <<"\\u0217">>, <<"\\u0219">>, <<"\\u021b">>, <<"\\u021d">>, <<"\\u021f">>,
    <<"\\u019e">>, <<"\\u0223">>, <<"\\u0225">>, <<"\\u0227">>, <<"\\u0229">>, <<"\\u022b">>,
    <<"\\u022d">>, <<"\\u022f">>, <<"\\u0231">>, <<"\\u0233">>, <<"\\u2c65">>, <<"\\u023c">>,
    <<"\\u019a">>, <<"\\u2c66">>, <<"\\u0242">>, <<"\\u0180">>, <<"\\u0289">>, <<"\\u028c">>,
    <<"\\u0247">>, <<"\\u0249">>, <<"\\u024b">>, <<"\\u024d">>, <<"\\u024f">>, <<"\\u0371">>,
    <<"\\u0373">>, <<"\\u0377">>, <<"\\u03f3">>, <<"\\u03ac">>, <<"\\u03ad">>, <<"\\u03ae">>,
    <<"\\u03af">>, <<"\\u03cc">>, <<"\\u03cd">>, <<"\\u03ce">>, <<"\\u03b1">>, <<"\\u03b2">>,
    <<"\\u03b3">>, <<"\\u03b4">>, <<"\\u03b5">>, <<"\\u03b6">>, <<"\\u03b7">>, <<"\\u03b8">>,
    <<"\\u03b9">>, <<"\\u03ba">>, <<"\\u03bb">>, <<"\\u03bc">>, <<"\\u03bd">>, <<"\\u03be">>,
    <<"\\u03bf">>, <<"\\u03c0">>, <<"\\u03c1">>, <<"\\u03c3">>, <<"\\u03c4">>, <<"\\u03c5">>,
    <<"\\u03c6">>, <<"\\u03c7">>, <<"\\u03c8">>, <<"\\u03c9">>, <<"\\u03ca">>, <<"\\u03cb">>,
    <<"\\u03d7">>, <<"\\u03d9">>, <<"\\u03db">>, <<"\\u03dd">>, <<"\\u03df">>, <<"\\u03e1">>,
    <<"\\u03e3">>, <<"\\u03e5">>, <<"\\u03e7">>, <<"\\u03e9">>, <<"\\u03eb">>, <<"\\u03ed">>,
    <<"\\u03ef">>, <<"\\u03b8">>, <<"\\u03f8">>, <<"\\u03f2">>, <<"\\u03fb">>, <<"\\u037b">>,
    <<"\\u037c">>, <<"\\u037d">>, <<"\\u0450">>, <<"\\u0451">>, <<"\\u0452">>, <<"\\u0453">>,
    <<"\\u0454">>, <<"\\u0455">>, <<"\\u0456">>, <<"\\u0457">>, <<"\\u0458">>, <<"\\u0459">>,
    <<"\\u045a">>, <<"\\u045b">>, <<"\\u045c">>, <<"\\u045d">>, <<"\\u045e">>, <<"\\u045f">>,
    <<"\\u0430">>, <<"\\u0431">>, <<"\\u0432">>, <<"\\u0433">>, <<"\\u0434">>, <<"\\u0435">>,
    <<"\\u0436">>, <<"\\u0437">>, <<"\\u0438">>, <<"\\u0439">>, <<"\\u043a">>, <<"\\u043b">>,
    <<"\\u043c">>, <<"\\u043d">>, <<"\\u043e">>, <<"\\u043f">>, <<"\\u0440">>, <<"\\u0441">>,
    <<"\\u0442">>, <<"\\u0443">>, <<"\\u0444">>, <<"\\u0445">>, <<"\\u0446">>, <<"\\u0447">>,
    <<"\\u0448">>, <<"\\u0449">>, <<"\\u044a">>, <<"\\u044b">>, <<"\\u044c">>, <<"\\u044d">>,
    <<"\\u044e">>, <<"\\u044f">>, <<"\\u0461">>, <<"\\u0463">>, <<"\\u0465">>, <<"\\u0467">>,
    <<"\\u0469">>, <<"\\u046b">>, <<"\\u046d">>, <<"\\u046f">>, <<"\\u0471">>, <<"\\u0473">>,
    <<"\\u0475">>, <<"\\u0477">>, <<"\\u0479">>, <<"\\u047b">>, <<"\\u047d">>, <<"\\u047f">>,
    <<"\\u0481">>, <<"\\u048b">>, <<"\\u048d">>, <<"\\u048f">>, <<"\\u0491">>, <<"\\u0493">>,
    <<"\\u0495">>, <<"\\u0497">>, <<"\\u0499">>, <<"\\u049b">>, <<"\\u049d">>, <<"\\u049f">>,
    <<"\\u04a1">>, <<"\\u04a3">>, <<"\\u04a5">>, <<"\\u04a7">>, <<"\\u04a9">>, <<"\\u04ab">>,
    <<"\\u04ad">>, <<"\\u04af">>, <<"\\u04b1">>, <<"\\u04b3">>, <<"\\u04b5">>, <<"\\u04b7">>,
    <<"\\u04b9">>, <<"\\u04bb">>, <<"\\u04bd">>, <<"\\u04bf">>, <<"\\u04cf">>, <<"\\u04c2">>,
    <<"\\u04c4">>, <<"\\u04c6">>, <<"\\u04c8">>, <<"\\u04ca">>, <<"\\u04cc">>, <<"\\u04ce">>,
    <<"\\u04d1">>, <<"\\u04d3">>, <<"\\u04d5">>, <<"\\u04d7">>, <<"\\u04d9">>, <<"\\u04db">>,
    <<"\\u04dd">>, <<"\\u04df">>, <<"\\u04e1">>, <<"\\u04e3">>, <<"\\u04e5">>, <<"\\u04e7">>,
    <<"\\u04e9">>, <<"\\u04eb">>, <<"\\u04ed">>, <<"\\u04ef">>, <<"\\u04f1">>, <<"\\u04f3">>,
    <<"\\u04f5">>, <<"\\u04f7">>, <<"\\u04f9">>, <<"\\u04fb">>, <<"\\u04fd">>, <<"\\u04ff">>,
    <<"\\u0501">>, <<"\\u0503">>, <<"\\u0505">>, <<"\\u0507">>, <<"\\u0509">>, <<"\\u050b">>,
    <<"\\u050d">>, <<"\\u050f">>, <<"\\u0511">>, <<"\\u0513">>, <<"\\u0515">>, <<"\\u0517">>,
    <<"\\u0519">>, <<"\\u051b">>, <<"\\u051d">>, <<"\\u051f">>, <<"\\u0521">>, <<"\\u0523">>,
    <<"\\u0525">>, <<"\\u0527">>, <<"\\u0529">>, <<"\\u052b">>, <<"\\u052d">>, <<"\\u052f">>,
    <<"\\u0561">>, <<"\\u0562">>, <<"\\u0563">>, <<"\\u0564">>, <<"\\u0565">>, <<"\\u0566">>,
    <<"\\u0567">>, <<"\\u0568">>, <<"\\u0569">>, <<"\\u056a">>, <<"\\u056b">>, <<"\\u056c">>,
    <<"\\u056d">>, <<"\\u056e">>, <<"\\u056f">>, <<"\\u0570">>, <<"\\u0571">>, <<"\\u0572">>,
    <<"\\u0573">>, <<"\\u0574">>, <<"\\u0575">>, <<"\\u0576">>, <<"\\u0577">>, <<"\\u0578">>,
    <<"\\u0579">>, <<"\\u057a">>, <<"\\u057b">>, <<"\\u057c">>, <<"\\u057d">>, <<"\\u057e">>,
    <<"\\u057f">>, <<"\\u0580">>, <<"\\u0581">>, <<"\\u0582">>, <<"\\u0583">>, <<"\\u0584">>,
    <<"\\u0585">>, <<"\\u0586">>, <<"\\u2d00">>, <<"\\u2d01">>, <<"\\u2d02">>, <<"\\u2d03">>,
    <<"\\u2d04">>, <<"\\u2d05">>, <<"\\u2d06">>, <<"\\u2d07">>, <<"\\u2d08">>, <<"\\u2d09">>,
    <<"\\u2d0a">>, <<"\\u2d0b">>, <<"\\u2d0c">>, <<"\\u2d0d">>, <<"\\u2d0e">>, <<"\\u2d0f">>,
    <<"\\u2d10">>, <<"\\u2d11">>, <<"\\u2d12">>, <<"\\u2d13">>, <<"\\u2d14">>, <<"\\u2d15">>,
    <<"\\u2d16">>, <<"\\u2d17">>, <<"\\u2d18">>, <<"\\u2d19">>, <<"\\u2d1a">>, <<"\\u2d1b">>,
    <<"\\u2d1c">>, <<"\\u2d1d">>, <<"\\u2d1e">>, <<"\\u2d1f">>, <<"\\u2d20">>, <<"\\u2d21">>,
    <<"\\u2d22">>, <<"\\u2d23">>, <<"\\u2d24">>, <<"\\u2d25">>, <<"\\u2d27">>, <<"\\u2d2d">>,
    <<"\\uab70">>, <<"\\uab71">>, <<"\\uab72">>, <<"\\uab73">>, <<"\\uab74">>, <<"\\uab75">>,
    <<"\\uab76">>, <<"\\uab77">>, <<"\\uab78">>, <<"\\uab79">>, <<"\\uab7a">>, <<"\\uab7b">>,
    <<"\\uab7c">>, <<"\\uab7d">>, <<"\\uab7e">>, <<"\\uab7f">>, <<"\\uab80">>, <<"\\uab81">>,
    <<"\\uab82">>, <<"\\uab83">>, <<"\\uab84">>, <<"\\uab85">>, <<"\\uab86">>, <<"\\uab87">>,
    <<"\\uab88">>, <<"\\uab89">>, <<"\\uab8a">>, <<"\\uab8b">>, <<"\\uab8c">>, <<"\\uab8d">>,
    <<"\\uab8e">>, <<"\\uab8f">>, <<"\\uab90">>, <<"\\uab91">>, <<"\\uab92">>, <<"\\uab93">>,
    <<"\\uab94">>, <<"\\uab95">>, <<"\\uab96">>, <<"\\uab97">>, <<"\\uab98">>, <<"\\uab99">>,
    <<"\\uab9a">>, <<"\\uab9b">>, <<"\\uab9c">>, <<"\\uab9d">>, <<"\\uab9e">>, <<"\\uab9f">>,
    <<"\\uaba0">>, <<"\\uaba1">>, <<"\\uaba2">>, <<"\\uaba3">>, <<"\\uaba4">>, <<"\\uaba5">>,
    <<"\\uaba6">>, <<"\\uaba7">>, <<"\\uaba8">>, <<"\\uaba9">>, <<"\\uabaa">>, <<"\\uabab">>,
    <<"\\uabac">>, <<"\\uabad">>, <<"\\uabae">>, <<"\\uabaf">>, <<"\\uabb0">>, <<"\\uabb1">>,
    <<"\\uabb2">>, <<"\\uabb3">>, <<"\\uabb4">>, <<"\\uabb5">>, <<"\\uabb6">>, <<"\\uabb7">>,
    <<"\\uabb8">>, <<"\\uabb9">>, <<"\\uabba">>, <<"\\uabbb">>, <<"\\uabbc">>, <<"\\uabbd">>,
    <<"\\uabbe">>, <<"\\uabbf">>, <<"\\u13f8">>, <<"\\u13f9">>, <<"\\u13fa">>, <<"\\u13fb">>,
    <<"\\u13fc">>, <<"\\u13fd">>, <<"\\u1c8a">>, <<"\\u10d0">>, <<"\\u10d1">>, <<"\\u10d2">>,
    <<"\\u10d3">>, <<"\\u10d4">>, <<"\\u10d5">>, <<"\\u10d6">>, <<"\\u10d7">>, <<"\\u10d8">>,
    <<"\\u10d9">>, <<"\\u10da">>, <<"\\u10db">>, <<"\\u10dc">>, <<"\\u10dd">>, <<"\\u10de">>,
    <<"\\u10df">>, <<"\\u10e0">>, <<"\\u10e1">>, <<"\\u10e2">>, <<"\\u10e3">>, <<"\\u10e4">>,
    <<"\\u10e5">>, <<"\\u10e6">>, <<"\\u10e7">>, <<"\\u10e8">>, <<"\\u10e9">>, <<"\\u10ea">>,
    <<"\\u10eb">>, <<"\\u10ec">>, <<"\\u10ed">>, <<"\\u10ee">>, <<"\\u10ef">>, <<"\\u10f0">>,
    <<"\\u10f1">>, <<"\\u10f2">>, <<"\\u10f3">>, <<"\\u10f4">>, <<"\\u10f5">>, <<"\\u10f6">>,
    <<"\\u10f7">>, <<"\\u10f8">>, <<"\\u10f9">>, <<"\\u10fa">>, <<"\\u10fd">>, <<"\\u10fe">>,
    <<"\\u10ff">>, <<"\\u1e01">>, <<"\\u1e03">>, <<"\\u1e05">>, <<"\\u1e07">>, <<"\\u1e09">>,
    <<"\\u1e0b">>, <<"\\u1e0d">>, <<"\\u1e0f">>, <<"\\u1e11">>, <<"\\u1e13">>, <<"\\u1e15">>,
    <<"\\u1e17">>, <<"\\u1e19">>, <<"\\u1e1b">>, <<"\\u1e1d">>, <<"\\u1e1f">>, <<"\\u1e21">>,
    <<"\\u1e23">>, <<"\\u1e25">>, <<"\\u1e27">>, <<"\\u1e29">>, <<"\\u1e2b">>, <<"\\u1e2d">>,
    <<"\\u1e2f">>, <<"\\u1e31">>, <<"\\u1e33">>, <<"\\u1e35">>, <<"\\u1e37">>, <<"\\u1e39">>,
    <<"\\u1e3b">>, <<"\\u1e3d">>, <<"\\u1e3f">>, <<"\\u1e41">>, <<"\\u1e43">>, <<"\\u1e45">>,
    <<"\\u1e47">>, <<"\\u1e49">>, <<"\\u1e4b">>, <<"\\u1e4d">>, <<"\\u1e4f">>, <<"\\u1e51">>,
    <<"\\u1e53">>, <<"\\u1e55">>, <<"\\u1e57">>, <<"\\u1e59">>, <<"\\u1e5b">>, <<"\\u1e5d">>,
    <<"\\u1e5f">>, <<"\\u1e61">>, <<"\\u1e63">>, <<"\\u1e65">>, <<"\\u1e67">>, <<"\\u1e69">>,
    <<"\\u1e6b">>, <<"\\u1e6d">>, <<"\\u1e6f">>, <<"\\u1e71">>, <<"\\u1e73">>, <<"\\u1e75">>,
    <<"\\u1e77">>, <<"\\u1e79">>, <<"\\u1e7b">>, <<"\\u1e7d">>, <<"\\u1e7f">>, <<"\\u1e81">>,
    <<"\\u1e83">>, <<"\\u1e85">>, <<"\\u1e87">>, <<"\\u1e89">>, <<"\\u1e8b">>, <<"\\u1e8d">>,
    <<"\\u1e8f">>, <<"\\u1e91">>, <<"\\u1e93">>, <<"\\u1e95">>, <<"\\u00df">>, <<"\\u1ea1">>,
    <<"\\u1ea3">>, <<"\\u1ea5">>, <<"\\u1ea7">>, <<"\\u1ea9">>, <<"\\u1eab">>, <<"\\u1ead">>,
    <<"\\u1eaf">>, <<"\\u1eb1">>, <<"\\u1eb3">>, <<"\\u1eb5">>, <<"\\u1eb7">>, <<"\\u1eb9">>,
    <<"\\u1ebb">>, <<"\\u1ebd">>, <<"\\u1ebf">>, <<"\\u1ec1">>, <<"\\u1ec3">>, <<"\\u1ec5">>,
    <<"\\u1ec7">>, <<"\\u1ec9">>, <<"\\u1ecb">>, <<"\\u1ecd">>, <<"\\u1ecf">>, <<"\\u1ed1">>,
    <<"\\u1ed3">>, <<"\\u1ed5">>, <<"\\u1ed7">>, <<"\\u1ed9">>, <<"\\u1edb">>, <<"\\u1edd">>,
    <<"\\u1edf">>, <<"\\u1ee1">>, <<"\\u1ee3">>, <<"\\u1ee5">>, <<"\\u1ee7">>, <<"\\u1ee9">>,
    <<"\\u1eeb">>, <<"\\u1eed">>, <<"\\u1eef">>, <<"\\u1ef1">>, <<"\\u1ef3">>, <<"\\u1ef5">>,
    <<"\\u1ef7">>, <<"\\u1ef9">>, <<"\\u1efb">>, <<"\\u1efd">>, <<"\\u1eff">>, <<"\\u1f00">>,
    <<"\\u1f01">>, <<"\\u1f02">>, <<"\\u1f03">>, <<"\\u1f04">>, <<"\\u1f05">>, <<"\\u1f06">>,
    <<"\\u1f07">>, <<"\\u1f10">>, <<"\\u1f11">>, <<"\\u1f12">>, <<"\\u1f13">>, <<"\\u1f14">>,
    <<"\\u1f15">>, <<"\\u1f20">>, <<"\\u1f21">>, <<"\\u1f22">>, <<"\\u1f23">>, <<"\\u1f24">>,
    <<"\\u1f25">>, <<"\\u1f26">>, <<"\\u1f27">>, <<"\\u1f30">>, <<"\\u1f31">>, <<"\\u1f32">>,
    <<"\\u1f33">>, <<"\\u1f34">>, <<"\\u1f35">>, <<"\\u1f36">>, <<"\\u1f37">>, <<"\\u1f40">>,
    <<"\\u1f41">>, <<"\\u1f42">>, <<"\\u1f43">>, <<"\\u1f44">>, <<"\\u1f45">>, <<"\\u1f51">>,
    <<"\\u1f53">>, <<"\\u1f55">>, <<"\\u1f57">>, <<"\\u1f60">>, <<"\\u1f61">>, <<"\\u1f62">>,
    <<"\\u1f63">>, <<"\\u1f64">>, <<"\\u1f65">>, <<"\\u1f66">>, <<"\\u1f67">>, <<"\\u1f80">>,
    <<"\\u1f81">>, <<"\\u1f82">>, <<"\\u1f83">>, <<"\\u1f84">>, <<"\\u1f85">>, <<"\\u1f86">>,
    <<"\\u1f87">>, <<"\\u1f90">>, <<"\\u1f91">>, <<"\\u1f92">>, <<"\\u1f93">>, <<"\\u1f94">>,
    <<"\\u1f95">>, <<"\\u1f96">>, <<"\\u1f97">>, <<"\\u1fa0">>, <<"\\u1fa1">>, <<"\\u1fa2">>,
    <<"\\u1fa3">>, <<"\\u1fa4">>, <<"\\u1fa5">>, <<"\\u1fa6">>, <<"\\u1fa7">>, <<"\\u1fb0">>,
    <<"\\u1fb1">>, <<"\\u1f70">>, <<"\\u1f71">>, <<"\\u1fb3">>, <<"\\u1f72">>, <<"\\u1f73">>,
    <<"\\u1f74">>, <<"\\u1f75">>, <<"\\u1fc3">>, <<"\\u1fd0">>, <<"\\u1fd1">>, <<"\\u1f76">>,
    <<"\\u1f77">>, <<"\\u1fe0">>, <<"\\u1fe1">>, <<"\\u1f7a">>, <<"\\u1f7b">>, <<"\\u1fe5">>,
    <<"\\u1f78">>, <<"\\u1f79">>, <<"\\u1f7c">>, <<"\\u1f7d">>, <<"\\u1ff3">>, <<"\\u03c9">>,
    <<"k">>, <<"\\u00e5">>, <<"\\u214e">>, <<"\\u2170">>, <<"\\u2171">>, <<"\\u2172">>,
    <<"\\u2173">>, <<"\\u2174">>, <<"\\u2175">>, <<"\\u2176">>, <<"\\u2177">>, <<"\\u2178">>,
    <<"\\u2179">>, <<"\\u217a">>, <<"\\u217b">>, <<"\\u217c">>, <<"\\u217d">>, <<"\\u217e">>,
    <<"\\u217f">>, <<"\\u2184">>, <<"\\u24d0">>, <<"\\u24d1">>, <<"\\u24d2">>, <<"\\u24d3">>,
    <<"\\u24d4">>, <<"\\u24d5">>, <<"\\u24d6">>, <<"\\u24d7">>, <<"\\u24d8">>, <<"\\u24d9">>,
    <<"\\u24da">>, <<"\\u24db">>, <<"\\u24dc">>, <<"\\u24dd">>, <<"\\u24de">>, <<"\\u24df">>,
    <<"\\u24e0">>, <<"\\u24e1">>, <<"\\u24e2">>, <<"\\u24e3">>, <<"\\u24e4">>, <<"\\u24e5">>,
    <<"\\u24e6">>, <<"\\u24e7">>, <<"\\u24e8">>, <<"\\u24e9">>, <<"\\u2c30">>, <<"\\u2c31">>,
    <<"\\u2c32">>, <<"\\u2c33">>, <<"\\u2c34">>, <<"\\u2c35">>, <<"\\u2c36">>, <<"\\u2c37">>,
    <<"\\u2c38">>, <<"\\u2c39">>, <<"\\u2c3a">>, <<"\\u2c3b">>, <<"\\u2c3c">>, <<"\\u2c3d">>,
    <<"\\u2c3e">>, <<"\\u2c3f">>, <<"\\u2c40">>, <<"\\u2c41">>, <<"\\u2c42">>, <<"\\u2c43">>,
    <<"\\u2c44">>, <<"\\u2c45">>, <<"\\u2c46">>, <<"\\u2c47">>, <<"\\u2c48">>, <<"\\u2c49">>,
    <<"\\u2c4a">>, <<"\\u2c4b">>, <<"\\u2c4c">>, <<"\\u2c4d">>, <<"\\u2c4e">>, <<"\\u2c4f">>,
    <<"\\u2c50">>, <<"\\u2c51">>, <<"\\u2c52">>, <<"\\u2c53">>, <<"\\u2c54">>, <<"\\u2c55">>,
    <<"\\u2c56">>, <<"\\u2c57">>, <<"\\u2c58">>, <<"\\u2c59">>, <<"\\u2c5a">>, <<"\\u2c5b">>,
    <<"\\u2c5c">>, <<"\\u2c5d">>, <<"\\u2c5e">>, <<"\\u2c5f">>, <<"\\u2c61">>, <<"\\u026b">>,
    <<"\\u1d7d">>, <<"\\u027d">>, <<"\\u2c68">>, <<"\\u2c6a">>, <<"\\u2c6c">>, <<"\\u0251">>,
    <<"\\u0271">>, <<"\\u0250">>, <<"\\u0252">>, <<"\\u2c73">>, <<"\\u2c76">>, <<"\\u023f">>,
    <<"\\u0240">>, <<"\\u2c81">>, <<"\\u2c83">>, <<"\\u2c85">>, <<"\\u2c87">>, <<"\\u2c89">>,
    <<"\\u2c8b">>, <<"\\u2c8d">>, <<"\\u2c8f">>, <<"\\u2c91">>, <<"\\u2c93">>, <<"\\u2c95">>,
    <<"\\u2c97">>, <<"\\u2c99">>, <<"\\u2c9b">>, <<"\\u2c9d">>, <<"\\u2c9f">>, <<"\\u2ca1">>,
    <<"\\u2ca3">>, <<"\\u2ca5">>, <<"\\u2ca7">>, <<"\\u2ca9">>, <<"\\u2cab">>, <<"\\u2cad">>,
    <<"\\u2caf">>, <<"\\u2cb1">>, <<"\\u2cb3">>, <<"\\u2cb5">>, <<"\\u2cb7">>, <<"\\u2cb9">>,
    <<"\\u2cbb">>, <<"\\u2cbd">>, <<"\\u2cbf">>, <<"\\u2cc1">>, <<"\\u2cc3">>, <<"\\u2cc5">>,
    <<"\\u2cc7">>, <<"\\u2cc9">>, <<"\\u2ccb">>, <<"\\u2ccd">>, <<"\\u2ccf">>, <<"\\u2cd1">>,
    <<"\\u2cd3">>, <<"\\u2cd5">>, <<"\\u2cd7">>, <<"\\u2cd9">>, <<"\\u2cdb">>, <<"\\u2cdd">>,
    <<"\\u2cdf">>, <<"\\u2ce1">>, <<"\\u2ce3">>, <<"\\u2cec">>, <<"\\u2cee">>, <<"\\u2cf3">>,
    <<"\\ua641">>, <<"\\ua643">>, <<"\\ua645">>, <<"\\ua647">>, <<"\\ua649">>, <<"\\ua64b">>,
    <<"\\ua64d">>, <<"\\ua64f">>, <<"\\ua651">>, <<"\\ua653">>, <<"\\ua655">>, <<"\\ua657">>,
    <<"\\ua659">>, <<"\\ua65b">>, <<"\\ua65d">>, <<"\\ua65f">>, <<"\\ua661">>, <<"\\ua663">>,
    <<"\\ua665">>, <<"\\ua667">>, <<"\\ua669">>, <<"\\ua66b">>, <<"\\ua66d">>, <<"\\ua681">>,
    <<"\\ua683">>, <<"\\ua685">>, <<"\\ua687">>, <<"\\ua689">>, <<"\\ua68b">>, <<"\\ua68d">>,
    <<"\\ua68f">>, <<"\\ua691">>, <<"\\ua693">>, <<"\\ua695">>, <<"\\ua697">>, <<"\\ua699">>,
    <<"\\ua69b">>, <<"\\ua723">>, <<"\\ua725">>, <<"\\ua727">>, <<"\\ua729">>, <<"\\ua72b">>,
    <<"\\ua72d">>, <<"\\ua72f">>, <<"\\ua733">>, <<"\\ua735">>, <<"\\ua737">>, <<"\\ua739">>,
    <<"\\ua73b">>, <<"\\ua73d">>, <<"\\ua73f">>, <<"\\ua741">>, <<"\\ua743">>, <<"\\ua745">>,
    <<"\\ua747">>, <<"\\ua749">>, <<"\\ua74b">>, <<"\\ua74d">>, <<"\\ua74f">>, <<"\\ua751">>,
    <<"\\ua753">>, <<"\\ua755">>, <<"\\ua757">>, <<"\\ua759">>, <<"\\ua75b">>, <<"\\ua75d">>,
    <<"\\ua75f">>, <<"\\ua761">>, <<"\\ua763">>, <<"\\ua765">>, <<"\\ua767">>, <<"\\ua769">>,
    <<"\\ua76b">>, <<"\\ua76d">>, <<"\\ua76f">>, <<"\\ua77a">>, <<"\\ua77c">>, <<"\\u1d79">>,
    <<"\\ua77f">>, <<"\\ua781">>, <<"\\ua783">>, <<"\\ua785">>, <<"\\ua787">>, <<"\\ua78c">>,
    <<"\\u0265">>, <<"\\ua791">>, <<"\\ua793">>, <<"\\ua797">>, <<"\\ua799">>, <<"\\ua79b">>,
    <<"\\ua79d">>, <<"\\ua79f">>, <<"\\ua7a1">>, <<"\\ua7a3">>, <<"\\ua7a5">>, <<"\\ua7a7">>,
    <<"\\ua7a9">>, <<"\\u0266">>, <<"\\u025c">>, <<"\\u0261">>, <<"\\u026c">>, <<"\\u026a">>,
    <<"\\u029e">>, <<"\\u0287">>, <<"\\u029d">>, <<"\\uab53">>, <<"\\ua7b5">>, <<"\\ua7b7">>,
    <<"\\ua7b9">>, <<"\\ua7bb">>, <<"\\ua7bd">>, <<"\\ua7bf">>, <<"\\ua7c1">>, <<"\\ua7c3">>,
    <<"\\ua794">>, <<"\\u0282">>, <<"\\u1d8e">>, <<"\\ua7c8">>, <<"\\ua7ca">>, <<"\\u0264">>,
    <<"\\ua7cd">>, <<"\\ua7cf">>, <<"\\ua7d1">>, <<"\\ua7d3">>, <<"\\ua7d5">>, <<"\\ua7d7">>,
    <<"\\ua7d9">>, <<"\\ua7db">>, <<"\\u019b">>, <<"\\ua7f6">>, <<"\\uff41">>, <<"\\uff42">>,
    <<"\\uff43">>, <<"\\uff44">>, <<"\\uff45">>, <<"\\uff46">>, <<"\\uff47">>, <<"\\uff48">>,
    <<"\\uff49">>, <<"\\uff4a">>, <<"\\uff4b">>, <<"\\uff4c">>, <<"\\uff4d">>, <<"\\uff4e">>,
    <<"\\uff4f">>, <<"\\uff50">>, <<"\\uff51">>, <<"\\uff52">>, <<"\\uff53">>, <<"\\uff54">>,
    <<"\\uff55">>, <<"\\uff56">>, <<"\\uff57">>, <<"\\uff58">>, <<"\\uff59">>, <<"\\uff5a">>,
    <<"\\ud801", "\\udc28">>, <<"\\ud801", "\\udc29">>, <<"\\ud801", "\\udc2a">>,
    <<"\\ud801", "\\udc2b">>, <<"\\ud801", "\\udc2c">>, <<"\\ud801", "\\udc2d">>,
    <<"\\ud801", "\\udc2e">>, <<"\\ud801", "\\udc2f">>, <<"\\ud801", "\\udc30">>,
    <<"\\ud801", "\\udc31">>, <<"\\ud801", "\\udc32">>, <<"\\ud801", "\\udc33">>,
    <<"\\ud801", "\\udc34">>, <<"\\ud801", "\\udc35">>, <<"\\ud801", "\\udc36">>,
    <<"\\ud801", "\\udc37">>, <<"\\ud801", "\\udc38">>, <<"\\ud801", "\\udc39">>,
    <<"\\ud801", "\\udc3a">>, <<"\\ud801", "\\udc3b">>, <<"\\ud801", "\\udc3c">>,
    <<"\\ud801", "\\udc3d">>, <<"\\ud801", "\\udc3e">>, <<"\\ud801", "\\udc3f">>,
    <<"\\ud801", "\\udc40">>, <<"\\ud801", "\\udc41">>, <<"\\ud801", "\\udc42">>,
    <<"\\ud801", "\\udc43">>, <<"\\ud801", "\\udc44">>, <<"\\ud801", "\\udc45">>,
    <<"\\ud801", "\\udc46">>, <<"\\ud801", "\\udc47">>, <<"\\ud801", "\\udc48">>,
    <<"\\ud801", "\\udc49">>, <<"\\ud801", "\\udc4a">>, <<"\\ud801", "\\udc4b">>,
    <<"\\ud801", "\\udc4c">>, <<"\\ud801", "\\udc4d">>, <<"\\ud801", "\\udc4e">>,
    <<"\\ud801", "\\udc4f">>, <<"\\ud801", "\\udcd8">>, <<"\\ud801", "\\udcd9">>,
    <<"\\ud801", "\\udcda">>, <<"\\ud801", "\\udcdb">>, <<"\\ud801", "\\udcdc">>,
    <<"\\ud801", "\\udcdd">>, <<"\\ud801", "\\udcde">>, <<"\\ud801", "\\udcdf">>,
    <<"\\ud801", "\\udce0">>, <<"\\ud801", "\\udce1">>, <<"\\ud801", "\\udce2">>,
    <<"\\ud801", "\\udce3">>, <<"\\ud801", "\\udce4">>, <<"\\ud801", "\\udce5">>,
    <<"\\ud801", "\\udce6">>, <<"\\ud801", "\\udce7">>, <<"\\ud801", "\\udce8">>,
    <<"\\ud801", "\\udce9">>, <<"\\ud801", "\\udcea">>, <<"\\ud801", "\\udceb">>,
    <<"\\ud801", "\\udcec">>, <<"\\ud801", "\\udced">>, <<"\\ud801", "\\udcee">>,
    <<"\\ud801", "\\udcef">>, <<"\\ud801", "\\udcf0">>, <<"\\ud801", "\\udcf1">>,
    <<"\\ud801", "\\udcf2">>, <<"\\ud801", "\\udcf3">>, <<"\\ud801", "\\udcf4">>,
    <<"\\ud801", "\\udcf5">>, <<"\\ud801", "\\udcf6">>, <<"\\ud801", "\\udcf7">>,
    <<"\\ud801", "\\udcf8">>, <<"\\ud801", "\\udcf9">>, <<"\\ud801", "\\udcfa">>,
    <<"\\ud801", "\\udcfb">>, <<"\\ud801", "\\udd97">>, <<"\\ud801", "\\udd98">>,
    <<"\\ud801", "\\udd99">>, <<"\\ud801", "\\udd9a">>, <<"\\ud801", "\\udd9b">>,
    <<"\\ud801", "\\udd9c">>, <<"\\ud801", "\\udd9d">>, <<"\\ud801", "\\udd9e">>,
    <<"\\ud801", "\\udd9f">>, <<"\\ud801", "\\udda0">>, <<"\\ud801", "\\udda1">>,
    <<"\\ud801", "\\udda3">>, <<"\\ud801", "\\udda4">>, <<"\\ud801", "\\udda5">>,
    <<"\\ud801", "\\udda6">>, <<"\\ud801", "\\udda7">>, <<"\\ud801", "\\udda8">>,
    <<"\\ud801", "\\udda9">>, <<"\\ud801", "\\uddaa">>, <<"\\ud801", "\\uddab">>,
    <<"\\ud801", "\\uddac">>, <<"\\ud801", "\\uddad">>, <<"\\ud801", "\\uddae">>,
    <<"\\ud801", "\\uddaf">>, <<"\\ud801", "\\uddb0">>, <<"\\ud801", "\\uddb1">>,
    <<"\\ud801", "\\uddb3">>, <<"\\ud801", "\\uddb4">>, <<"\\ud801", "\\uddb5">>,
    <<"\\ud801", "\\uddb6">>, <<"\\ud801", "\\uddb7">>, <<"\\ud801", "\\uddb8">>,
    <<"\\ud801", "\\uddb9">>, <<"\\ud801", "\\uddbb">>, <<"\\ud801", "\\uddbc">>,
    <<"\\ud803", "\\udcc0">>, <<"\\ud803", "\\udcc1">>, <<"\\ud803", "\\udcc2">>,
    <<"\\ud803", "\\udcc3">>, <<"\\ud803", "\\udcc4">>, <<"\\ud803", "\\udcc5">>,
    <<"\\ud803", "\\udcc6">>, <<"\\ud803", "\\udcc7">>, <<"\\ud803", "\\udcc8">>,
    <<"\\ud803", "\\udcc9">>, <<"\\ud803", "\\udcca">>, <<"\\ud803", "\\udccb">>,
    <<"\\ud803", "\\udccc">>, <<"\\ud803", "\\udccd">>, <<"\\ud803", "\\udcce">>,
    <<"\\ud803", "\\udccf">>, <<"\\ud803", "\\udcd0">>, <<"\\ud803", "\\udcd1">>,
    <<"\\ud803", "\\udcd2">>, <<"\\ud803", "\\udcd3">>, <<"\\ud803", "\\udcd4">>,
    <<"\\ud803", "\\udcd5">>, <<"\\ud803", "\\udcd6">>, <<"\\ud803", "\\udcd7">>,
    <<"\\ud803", "\\udcd8">>, <<"\\ud803", "\\udcd9">>, <<"\\ud803", "\\udcda">>,
    <<"\\ud803", "\\udcdb">>, <<"\\ud803", "\\udcdc">>, <<"\\ud803", "\\udcdd">>,
    <<"\\ud803", "\\udcde">>, <<"\\ud803", "\\udcdf">>, <<"\\ud803", "\\udce0">>,
    <<"\\ud803", "\\udce1">>, <<"\\ud803", "\\udce2">>, <<"\\ud803", "\\udce3">>,
    <<"\\ud803", "\\udce4">>, <<"\\ud803", "\\udce5">>, <<"\\ud803", "\\udce6">>,
    <<"\\ud803", "\\udce7">>, <<"\\ud803", "\\udce8">>, <<"\\ud803", "\\udce9">>,
    <<"\\ud803", "\\udcea">>, <<"\\ud803", "\\udceb">>, <<"\\ud803", "\\udcec">>,
    <<"\\ud803", "\\udced">>, <<"\\ud803", "\\udcee">>, <<"\\ud803", "\\udcef">>,
    <<"\\ud803", "\\udcf0">>, <<"\\ud803", "\\udcf1">>, <<"\\ud803", "\\udcf2">>,
    <<"\\ud803", "\\udd70">>, <<"\\ud803", "\\udd71">>, <<"\\ud803", "\\udd72">>,
    <<"\\ud803", "\\udd73">>, <<"\\ud803", "\\udd74">>, <<"\\ud803", "\\udd75">>,
    <<"\\ud803", "\\udd76">>, <<"\\ud803", "\\udd77">>, <<"\\ud803", "\\udd78">>,
    <<"\\ud803", "\\udd79">>, <<"\\ud803", "\\udd7a">>, <<"\\ud803", "\\udd7b">>,
    <<"\\ud803", "\\udd7c">>, <<"\\ud803", "\\udd7d">>, <<"\\ud803", "\\udd7e">>,
    <<"\\ud803", "\\udd7f">>, <<"\\ud803", "\\udd80">>, <<"\\ud803", "\\udd81">>,
    <<"\\ud803", "\\udd82">>, <<"\\ud803", "\\udd83">>, <<"\\ud803", "\\udd84">>,
    <<"\\ud803", "\\udd85">>, <<"\\ud806", "\\udcc0">>, <<"\\ud806", "\\udcc1">>,
    <<"\\ud806", "\\udcc2">>, <<"\\ud806", "\\udcc3">>, <<"\\ud806", "\\udcc4">>,
    <<"\\ud806", "\\udcc5">>, <<"\\ud806", "\\udcc6">>, <<"\\ud806", "\\udcc7">>,
    <<"\\ud806", "\\udcc8">>, <<"\\ud806", "\\udcc9">>, <<"\\ud806", "\\udcca">>,
    <<"\\ud806", "\\udccb">>, <<"\\ud806", "\\udccc">>, <<"\\ud806", "\\udccd">>,
    <<"\\ud806", "\\udcce">>, <<"\\ud806", "\\udccf">>, <<"\\ud806", "\\udcd0">>,
    <<"\\ud806", "\\udcd1">>, <<"\\ud806", "\\udcd2">>, <<"\\ud806", "\\udcd3">>,
    <<"\\ud806", "\\udcd4">>, <<"\\ud806", "\\udcd5">>, <<"\\ud806", "\\udcd6">>,
    <<"\\ud806", "\\udcd7">>, <<"\\ud806", "\\udcd8">>, <<"\\ud806", "\\udcd9">>,
    <<"\\ud806", "\\udcda">>, <<"\\ud806", "\\udcdb">>, <<"\\ud806", "\\udcdc">>,
    <<"\\ud806", "\\udcdd">>, <<"\\ud806", "\\udcde">>, <<"\\ud806", "\\udcdf">>,
    <<"\\ud81b", "\\ude60">>, <<"\\ud81b", "\\ude61">>, <<"\\ud81b", "\\ude62">>,
    <<"\\ud81b", "\\ude63">>, <<"\\ud81b", "\\ude64">>, <<"\\ud81b", "\\ude65">>,
    <<"\\ud81b", "\\ude66">>, <<"\\ud81b", "\\ude67">>, <<"\\ud81b", "\\ude68">>,
    <<"\\ud81b", "\\ude69">>, <<"\\ud81b", "\\ude6a">>, <<"\\ud81b", "\\ude6b">>,
    <<"\\ud81b", "\\ude6c">>, <<"\\ud81b", "\\ude6d">>, <<"\\ud81b", "\\ude6e">>,
    <<"\\ud81b", "\\ude6f">>, <<"\\ud81b", "\\ude70">>, <<"\\ud81b", "\\ude71">>,
    <<"\\ud81b", "\\ude72">>, <<"\\ud81b", "\\ude73">>, <<"\\ud81b", "\\ude74">>,
    <<"\\ud81b", "\\ude75">>, <<"\\ud81b", "\\ude76">>, <<"\\ud81b", "\\ude77">>,
    <<"\\ud81b", "\\ude78">>, <<"\\ud81b", "\\ude79">>, <<"\\ud81b", "\\ude7a">>,
    <<"\\ud81b", "\\ude7b">>, <<"\\ud81b", "\\ude7c">>, <<"\\ud81b", "\\ude7d">>,
    <<"\\ud81b", "\\ude7e">>, <<"\\ud81b", "\\ude7f">>, <<"\\ud81b", "\\udebb">>,
    <<"\\ud81b", "\\udebc">>, <<"\\ud81b", "\\udebd">>, <<"\\ud81b", "\\udebe">>,
    <<"\\ud81b", "\\udebf">>, <<"\\ud81b", "\\udec0">>, <<"\\ud81b", "\\udec1">>,
    <<"\\ud81b", "\\udec2">>, <<"\\ud81b", "\\udec3">>, <<"\\ud81b", "\\udec4">>,
    <<"\\ud81b", "\\udec5">>, <<"\\ud81b", "\\udec6">>, <<"\\ud81b", "\\udec7">>,
    <<"\\ud81b", "\\udec8">>, <<"\\ud81b", "\\udec9">>, <<"\\ud81b", "\\udeca">>,
    <<"\\ud81b", "\\udecb">>, <<"\\ud81b", "\\udecc">>, <<"\\ud81b", "\\udecd">>,
    <<"\\ud81b", "\\udece">>, <<"\\ud81b", "\\udecf">>, <<"\\ud81b", "\\uded0">>,
    <<"\\ud81b", "\\uded1">>, <<"\\ud81b", "\\uded2">>, <<"\\ud81b", "\\uded3">>,
    <<"\\ud83a", "\\udd22">>, <<"\\ud83a", "\\udd23">>, <<"\\ud83a", "\\udd24">>,
    <<"\\ud83a", "\\udd25">>, <<"\\ud83a", "\\udd26">>, <<"\\ud83a", "\\udd27">>,
    <<"\\ud83a", "\\udd28">>, <<"\\ud83a", "\\udd29">>, <<"\\ud83a", "\\udd2a">>,
    <<"\\ud83a", "\\udd2b">>, <<"\\ud83a", "\\udd2c">>, <<"\\ud83a", "\\udd2d">>,
    <<"\\ud83a", "\\udd2e">>, <<"\\ud83a", "\\udd2f">>, <<"\\ud83a", "\\udd30">>,
    <<"\\ud83a", "\\udd31">>, <<"\\ud83a", "\\udd32">>, <<"\\ud83a", "\\udd33">>,
    <<"\\ud83a", "\\udd34">>, <<"\\ud83a", "\\udd35">>, <<"\\ud83a", "\\udd36">>,
    <<"\\ud83a", "\\udd37">>, <<"\\ud83a", "\\udd38">>, <<"\\ud83a", "\\udd39">>,
    <<"\\ud83a", "\\udd3a">>, <<"\\ud83a", "\\udd3b">>, <<"\\ud83a", "\\udd3c">>,
    <<"\\ud83a", "\\udd3d">>, <<"\\ud83a", "\\udd3e">>, <<"\\ud83a", "\\udd3f">>,
    <<"\\ud83a", "\\udd40">>, <<"\\ud83a", "\\udd41">>, <<"\\ud83a", "\\udd42">>,
    <<"\\ud83a", "\\udd43">> >>

\* The cased letters that are in neither list.
OtherCased ==
  { <<"\\u00aa">>, <<"\\u00b5">>, <<"\\u00ba">>, <<"\\u0130">>, <<"\\u0131">>, <<"\\u0138">>,
    <<"\\u0149">>, <<"\\u017f">>, <<"\\u018d">>, <<"\\u01aa">>, <<"\\u01ab">>, <<"\\u01ba">>,
    <<"\\u01be">>, <<"\\u01f0">>, <<"\\u0221">>, <<"\\u0234">>, <<"\\u0235">>, <<"\\u0236">>,
    <<"\\u0237">>, <<"\\u0238">>, <<"\\u0239">>, <<"\\u0255">>, <<"\\u0258">>, <<"\\u025a">>,
    <<"\\u025d">>, <<"\\u025e">>, <<"\\u025f">>, <<"\\u0262">>, <<"\\u0267">>, <<"\\u026d">>,
    <<"\\u026e">>, <<"\\u0270">>, <<"\\u0273">>, <<"\\u0274">>, <<"\\u0276">>, <<"\\u0277">>,
    <<"\\u0278">>, <<"\\u0279">>, <<"\\u027a">>, <<"\\u027b">>, <<"\\u027c">>, <<"\\u027e">>,
    <<"\\u027f">>, <<"\\u0281">>, <<"\\u0284">>, <<"\\u0285">>, <<"\\u0286">>, <<"\\u028d">>,
    <<"\\u028e">>, <<"\\u028f">>, <<"\\u0290">>, <<"\\u0291">>, <<"\\u0293">>, <<"\\u0296">>,
    <<"\\u0297">>, <<"\\u0298">>, <<"\\u0299">>, <<"\\u029a">>, <<"\\u029b">>, <<"\\u029c">>,
    <<"\\u029f">>, <<"\\u02a0">>, <<"\\u02a1">>, <<"\\u02a2">>, <<"\\u02a3">>, <<"\\u02a4">>,
    <<"\\u02a5">>, <<"\\u02a6">>, <<"\\u02a7">>, <<"\\u02a8">>, <<"\\u02a9">>, <<"\\u02aa">>,
    <<"\\u02ab">>, <<"\\u02ac">>, <<"\\u02ad">>, <<"\\u02ae">>, <<"\\u02af">>, <<"\\u0390">>,
    <<"\\u03b0">>, <<"\\u03c2">>, <<"\\u03d0">>, <<"\\u03d1">>, <<"\\u03d2">>, <<"\\u03d3">>,
    <<"\\u03d4">>, <<"\\u03d5">>, <<"\\u03d6">>, <<"\\u03f0">>, <<"\\u03f1">>, <<"\\u03f5">>,
    <<"\\u03fc">>, <<"\\u0560">>, <<"\\u0587">>, <<"\\u0588">>, <<"\\u1c80">>, <<"\\u1c81">>,
    <<"\\u1c82">>, <<"\\u1c83">>, <<"\\u1c84">>, <<"\\u1c85">>, <<"\\u1c86">>, <<"\\u1c87">>,
    <<"\\u1c88">>, <<"\\u1d00">>, <<"\\u1d01">>, <<"\\u1d02">>, <<"\\u1d03">>, <<"\\u1d04">>,
    <<"\\u1d05">>, <<"\\u1d06">>, <<"\\u1d07">>, <<"\\u1d08">>, <<"\\u1d09">>, <<"\\u1d0a">>,
    <<"\\u1d0b">>, <<"\\u1d0c">>, <<"\\u1d0d">>, <<"\\u1d0e">>, <<"\\u1d0f">>, <<"\\u1d10">>,
    <<"\\u1d11">>, <<"\\u1d12">>, <<"\\u1d13">>, <<"\\u1d14">>, <<"\\u1d15">>, <<"\\u1d16">>,
    <<"\\u1d17">>, <<"\\u1d18">>, <<"\\u1d19">>, <<"\\u1d1a">>, <<"\\u1d1b">>, <<"\\u1d1c">>,
    <<"\\u1d1d">>, <<"\\u1d1e">>, <<"\\u1d1f">>, <<"\\u1d20">>, <<"\\u1d21">>, <<"\\u1d22">>,
    <<"\\u1d23">>, <<"\\u1d24">>, <<"\\u1d25">>, <<"\\u1d26">>, <<"\\u1d27">>, <<"\\u1d28">>,
    <<"\\u1d29">>, <<"\\u1d2a">>, <<"\\u1d2b">>, <<"\\u1d6b">>, <<"\\u1d6c">>, <<"\\u1d6d">>,
    <<"\\u1d6e">>, <<"\\u1d6f">>, <<"\\u1d70">>, <<"\\u1d71">>, <<"\\u1d72">>, <<"\\u1d73">>,
    <<"\\u1d74">>, <<"\\u1d75">>, <<"\\u1d76">>, <<"\\u1d77">>, <<"\\u1d7a">>, <<"\\u1d7b">>,
    <<"\\u1d7c">>, <<"\\u1d7e">>, <<"\\u1d7f">>, <<"\\u1d80">>, <<"\\u1d81">>, <<"\\u1d82">>,
    <<"\\u1d83">>, <<"\\u1d84">>, <<"\\u1d85">>, <<"\\u1d86">>, <<"\\u1d87">>, <<"\\u1d88">>,
    <<"\\u1d89">>, <<"\\u1d8a">>, <<"\\u1d8b">>, <<"\\u1d8c">>, <<"\\u1d8d">>, <<"\\u1d8f">>,
    <<"\\u1d90">>, <<"\\u1d91">>, <<"\\u1d92">>, <<"\\u1d93">>, <<"\\u1d94">>, <<"\\u1d95">>,
    <<"\\u1d96">>, <<"\\u1d97">>, <<"\\u1d98">>, <<"\\u1d99">>, <<"\\u1d9a">>, <<"\\u1e96">>,
    <<"\\u1e97">>, <<"\\u1e98">>, <<"\\u1e99">>, <<"\\u1e9a">>, <<"\\u1e9b">>, <<"\\u1e9c">>,
    <<"\\u1e9d">>, <<"\\u1e9f">>, <<"\\u1f50">>, <<"\\u1f52">>, <<"\\u1f54">>, <<"\\u1f56">>,
    <<"\\u1fb2">>, <<"\\u1fb4">>, <<"\\u1fb6">>, <<"\\u1fb7">>, <<"\\u1fbe">>, <<"\\u1fc2">>,
    <<"\\u1fc4">>, <<"\\u1fc6">>, <<"\\u1fc7">>, <<"\\u1fd2">>, <<"\\u1fd3">>, <<"\\u1fd6">>,
    <<"\\u1fd7">>, <<"\\u1fe2">>, <<"\\u1fe3">>, <<"\\u1fe4">>, <<"\\u1fe6">>, <<"\\u1fe7">>,
    <<"\\u1ff2">>, <<"\\u1ff4">>, <<"\\u1ff6">>, <<"\\u1ff7">>, <<"\\u2102">>, <<"\\u2107">>,
    <<"\\u210a">>, <<"\\u210b">>, <<"\\u210c">>, <<"\\u210d">>, <<"\\u210e">>, <<"\\u210f">>,
    <<"\\u2110">>, <<"\\u2111">>, <<"\\u2112">>, <<"\\u2113">>, <<"\\u2115">>, <<"\\u2119">>,
    <<"\\u211a">>, <<"\\u211b">>, <<"\\u211c">>, <<"\\u211d">>, <<"\\u2124">>, <<"\\u2128">>,
    <<"\\u212c">>, <<"\\u212d">>, <<"\\u212f">>, <<"\\u2130">>, <<"\\u2131">>, <<"\\u2133">>,
    <<"\\u2134">>, <<"\\u2139">>, <<"\\u213c">>, <<"\\u213d">>, <<"\\u213e">>, <<"\\u213f">>,
    <<"\\u2145">>, <<"\\u2146">>, <<"\\u2147">>, <<"\\u2148">>, <<"\\u2149">>, <<"\\u2c71">>,
    <<"\\u2c74">>, <<"\\u2c77">>, <<"\\u2c78">>, <<"\\u2c79">>, <<"\\u2c7a">>, <<"\\u2c7b">>,
    <<"\\u2ce4">>, <<"\\ua730">>, <<"\\ua731">>, <<"\\ua771">>, <<"\\ua772">>, <<"\\ua773">>,
    <<"\\ua774">>, <<"\\ua775">>, <<"\\ua776">>, <<"\\ua777">>, <<"\\ua778">>, <<"\\ua78e">>,
    <<"\\ua795">>, <<"\\ua7af">>, <<"\\ua7fa">>, <<"\\uab30">>, <<"\\uab31">>, <<"\\uab32">>,
    <<"\\uab33">>, <<"\\uab34">>, <<"\\uab35">>, <<"\\uab36">>, <<"\\uab37">>, <<"\\uab38">>,
    <<"\\uab39">>, <<"\\uab3a">>, <<"\\uab3b">>, <<"\\uab3c">>, <<"\\uab3d">>, <<"\\uab3e">>,
    <<"\\uab3f">>, <<"\\uab40">>, <<"\\uab41">>, <<"\\uab42">>, <<"\\uab43">>, <<"\\uab44">>,
    <<"\\uab45">>, <<"\\uab46">>, <<"\\uab47">>, <<"\\uab48">>, <<"\\uab49">>, <<"\\uab4a">>,
    <<"\\uab4b">>, <<"\\uab4c">>, <<"\\uab4d">>, <<"\\uab4e">>, <<"\\uab4f">>, <<"\\uab50">>,
    <<"\\uab51">>, <<"\\uab52">>, <<"\\uab54">>, <<"\\uab55">>, <<"\\uab56">>, <<"\\uab57">>,
    <<"\\uab58">>, <<"\\uab59">>, <<"\\uab5a">>, <<"\\uab60">>, <<"\\uab61">>, <<"\\uab62">>,
    <<"\\uab63">>, <<"\\uab64">>, <<"\\uab65">>, <<"\\uab66">>, <<"\\uab67">>, <<"\\uab68">>,
    <<"\\ufb00">>, <<"\\ufb01">>, <<"\\ufb02">>, <<"\\ufb03">>, <<"\\ufb04">>, <<"\\ufb05">>,
    <<"\\ufb06">>, <<"\\ufb13">>, <<"\\ufb14">>, <<"\\ufb15">>, <<"\\ufb16">>, <<"\\ufb17">>,
    <<"\\ud835", "\\udc00">>, <<"\\ud835", "\\udc01">>, <<"\\ud835", "\\udc02">>,
    <<"\\ud835", "\\udc03">>, <<"\\ud835", "\\udc04">>, <<"\\ud835", "\\udc05">>,
    <<"\\ud835", "\\udc06">>, <<"\\ud835", "\\udc07">>, <<"\\ud835", "\\udc08">>,
    <<"\\ud835", "\\udc09">>, <<"\\ud835", "\\udc0a">>, <<"\\ud835", "\\udc0b">>,
    <<"\\ud835", "\\udc0c">>, <<"\\ud835", "\\udc0d">>, <<"\\ud835", "\\udc0e">>,
    <<"\\ud835", "\\udc0f">>, <<"\\ud835", "\\udc10">>, <<"\\ud835", "\\udc11">>,
    <<"\\ud835", "\\udc12">>, <<"\\ud835", "\\udc13">>, <<"\\ud835", "\\udc14">>,
    <<"\\ud835", "\\udc15">>, <<"\\ud835", "\\udc16">>, <<"\\ud835", "\\udc17">>,
    <<"\\ud835", "\\udc18">>, <<"\\ud835", "\\udc19">>, <<"\\ud835", "\\udc1a">>,
    <<"\\ud835", "\\udc1b">>, <<"\\ud835", "\\udc1c">>, <<"\\ud835", "\\udc1d">>,
    <<"\\ud835", "\\udc1e">>, <<"\\ud835", "\\udc1f">>, <<"\\ud835", "\\udc20">>,
    <<"\\ud835", "\\udc21">>, <<"\\ud835", "\\udc22">>, <<"\\ud835", "\\udc23">>,
    <<"\\ud835", "\\udc24">>, <<"\\ud835", "\\udc25">>, <<"\\ud835", "\\udc26">>,
    <<"\\ud835", "\\udc27">>, <<"\\ud835", "\\udc28">>, <<"\\ud835", "\\udc29">>,
    <<"\\ud835", "\\udc2a">>, <<"\\ud835", "\\udc2b">>, <<"\\ud835", "\\udc2c">>,
    <<"\\ud835", "\\udc2d">>, <<"\\ud835", "\\udc2e">>, <<"\\ud835", "\\udc2f">>,
    <<"\\ud835", "\\udc30">>, <<"\\ud835", "\\udc31">>, <<"\\ud835", "\\udc32">>,
    <<"\\ud835", "\\udc33">>, <<"\\ud835", "\\udc34">>, <<"\\ud835", "\\udc35">>,
    <<"\\ud835", "\\udc36">>, <<"\\ud835", "\\udc37">>, <<"\\ud835", "\\udc38">>,
    <<"\\ud835", "\\udc39">>, <<"\\ud835", "\\udc3a">>, <<"\\ud835", "\\udc3b">>,
    <<"\\ud835", "\\udc3c">>, <<"\\ud835", "\\udc3d">>, <<"\\ud835", "\\udc3e">>,
    <<"\\ud835", "\\udc3f">>, <<"\\ud835", "\\udc40">>, <<"\\ud835", "\\udc41">>,
    <<"\\ud835", "\\udc42">>, <<"\\ud835", "\\udc43">>, <<"\\ud835", "\\udc44">>,
    <<"\\ud835", "\\udc45">>, <<"\\ud835", "\\udc46">>, <<"\\ud835", "\\udc47">>,
    <<"\\ud835", "\\udc48">>, <<"\\ud835", "\\udc49">>, <<"\\ud835", "\\udc4a">>,
    <<"\\ud835", "\\udc4b">>, <<"\\ud835", "\\udc4c">>, <<"\\ud835", "\\udc4d">>,
    <<"\\ud835", "\\udc4e">>, <<"\\ud835", "\\udc4f">>, <<"\\ud835", "\\udc50">>,
    <<"\\ud835", "\\udc51">>, <<"\\ud835", "\\udc52">>, <<"\\ud835", "\\udc53">>,
    <<"\\ud835", "\\udc54">>, <<"\\ud835", "\\udc56">>, <<"\\ud835", "\\udc57">>,
    <<"\\ud835", "\\udc58">>, <<"\\ud835", "\\udc59">>, <<"\\ud835", "\\udc5a">>,
    <<"\\ud835", "\\udc5b">>, <<"\\ud835", "\\udc5c">>, <<"\\ud835", "\\udc5d">>,
    <<"\\ud835", "\\udc5e">>, <<"\\ud835", "\\udc5f">>, <<"\\ud835", "\\udc60">>,
    <<"\\ud835", "\\udc61">>, <<"\\ud835", "\\udc62">>, <<"\\ud835", "\\udc63">>,
    <<"\\ud835", "\\udc64">>, <<"\\ud835", "\\udc65">>, <<"\\ud835", "\\udc66">>,
    <<"\\ud835", "\\udc67">>, <<"\\ud835", "\\udc68">>, <<"\\ud835", "\\udc69">>,
    <<"\\ud835", "\\udc6a">>, <<"\\ud835", "\\udc6b">>, <<"\\ud835", "\\udc6c">>,
    <<"\\ud835", "\\udc6d">>, <<"\\ud835", "\\udc6e">>, <<"\\ud835", "\\udc6f">>,
    <<"\\ud835", "\\udc70">>, <<"\\ud835", "\\udc71">>, <<"\\ud835", "\\udc72">>,
    <<"\\ud835", "\\udc73">>, <<"\\ud835", "\\udc74">>, <<"\\ud835", "\\udc75">>,
    <<"\\ud835", "\\udc76">>, <<"\\ud835", "\\udc77">>, <<"\\ud835", "\\udc78">>,
    <<"\\ud835", "\\udc79">>, <<"\\ud835", "\\udc7a">>, <<"\\ud835", "\\udc7b">>,
    <<"\\ud835", "\\udc7c">>, <<"\\ud835", "\\udc7d">>, <<"\\ud835", "\\udc7e">>,
    <<"\\ud835", "\\udc7f">>, <<"\\ud835", "\\udc80">>, <<"\\ud835", "\\udc81">>,
    <<"\\ud835", "\\udc82">>, <<"\\ud835", "\\udc83">>, <<"\\ud835", "\\udc84">>,
    <<"\\ud835", "\\udc85">>, <<"\\ud835", "\\udc86">>, <<"\\ud835", "\\udc87">>,
    <<"\\ud835", "\\udc88">>, <<"\\ud835", "\\udc89">>, <<"\\ud835", "\\udc8a">>,
    <<"\\ud835", "\\udc8b">>, <<"\\ud835", "\\udc8c">>, <<"\\ud835", "\\udc8d">>,
    <<"\\ud835", "\\udc8e">>, <<"\\ud835", "\\udc8f">>, <<"\\ud835", "\\udc90">>,
    <<"\\ud835", "\\udc91">>, <<"\\ud835", "\\udc92">>, <<"\\ud835", "\\udc93">>,
    <<"\\ud835", "\\udc94">>, <<"\\ud835", "\\udc95">>, <<"\\ud835", "\\udc96">>,
    <<"\\ud835", "\\udc97">>, <<"\\ud835", "\\udc98">>, <<"\\ud835", "\\udc99">>,
    <<"\\ud835", "\\udc9a">>, <<"\\ud835", "\\udc9b">>, <<"\\ud835", "\\udc9c">>,
    <<"\\ud835", "\\udc9e">>, <<"\\ud835", "\\udc9f">>, <<"\\ud835", "\\udca2">>,
    <<"\\ud835", "\\udca5">>, <<"\\ud835", "\\udca6">>, <<"\\ud835", "\\udca9">>,
    <<"\\ud835", "\\udcaa">>, <<"\\ud835", "\\udcab">>, <<"\\ud835", "\\udcac">>,
    <<"\\ud835", "\\udcae">>, <<"\\ud835", "\\udcaf">>, <<"\\ud835", "\\udcb0">>,
    <<"\\ud835", "\\udcb1">>, <<"\\ud835", "\\udcb2">>, <<"\\ud835", "\\udcb3">>,
    <<"\\ud835", "\\udcb4">>, <<"\\ud835", "\\udcb5">>, <<"\\ud835", "\\udcb6">>,
    <<"\\ud835", "\\udcb7">>, <<"\\ud835", "\\udcb8">>, <<"\\ud835", "\\udcb9">>,
    <<"\\ud835", "\\udcbb">>, <<"\\ud835", "\\udcbd">>, <<"\\ud835", "\\udcbe">>,
    <<"\\ud835", "\\udcbf">>, <<"\\ud835", "\\udcc0">>, <<"\\ud835", "\\udcc1">>,
    <<"\\ud835", "\\udcc2">>, <<"\\ud835", "\\udcc3">>, <<"\\ud835", "\\udcc5">>,
    <<"\\ud835", "\\udcc6">>, <<"\\ud835", "\\udcc7">>, <<"\\ud835", "\\udcc8">>,
    <<"\\ud835", "\\udcc9">>, <<"\\ud835", "\\udcca">>, <<"\\ud835", "\\udccb">>,
    <<"\\ud835", "\\udccc">>, <<"\\ud835", "\\udccd">>, <<"\\ud835", "\\udcce">>,
    <<"\\ud835", "\\udccf">>, <<"\\ud835", "\\udcd0">>, <<"\\ud835", "\\udcd1">>,
    <<"\\ud835", "\\udcd2">>, <<"\\ud835", "\\udcd3">>, <<"\\ud835", "\\udcd4">>,
    <<"\\ud835", "\\udcd5">>, <<"\\ud835", "\\udcd6">>, <<"\\ud835", "\\udcd7">>,
    <<"\\ud835", "\\udcd8">>, <<"\\ud835", "\\udcd9">>, <<"\\ud835", "\\udcda">>,
    <<"\\ud835", "\\udcdb">>, <<"\\ud835", "\\udcdc">>, <<"\\ud835", "\\udcdd">>,
    <<"\\ud835", "\\udcde">>, <<"\\ud835", "\\udcdf">>, <<"\\ud835", "\\udce0">>,
    <<"\\ud835", "\\udce1">>, <<"\\ud835", "\\udce2">>, <<"\\ud835", "\\udce3">>,
    <<"\\ud835", "\\udce4">>, <<"\\ud835", "\\udce5">>, <<"\\ud835", "\\udce6">>,
    <<"\\ud835", "\\udce7">>, <<"\\ud835", "\\udce8">>, <<"\\ud835", "\\udce9">>,
    <<"\\ud835", "\\udcea">>, <<"\\ud835", "\\udceb">>, <<"\\ud835", "\\udcec">>,
    <<"\\ud835", "\\udced">>, <<"\\ud835", "\\udcee">>, <<"\\ud835", "\\udcef">>,
    <<"\\ud835", "\\udcf0">>, <<"\\ud835", "\\udcf1">>, <<"\\ud835", "\\udcf2">>,
    <<"\\ud835", "\\udcf3">>, <<"\\ud835", "\\udcf4">>, <<"\\ud835", "\\udcf5">>,
    <<"\\ud835", "\\udcf6">>, <<"\\ud835", "\\udcf7">>, <<"\\ud835", "\\udcf8">>,
    <<"\\ud835", "\\udcf9">>, <<"\\ud835", "\\udcfa">>, <<"\\ud835", "\\udcfb">>,
    <<"\\ud835", "\\udcfc">>, <<"\\ud835", "\\udcfd">>, <<"\\ud835", "\\udcfe">>,
    <<"\\ud835", "\\udcff">>, <<"\\ud835", "\\udd00">>, <<"\\ud835", "\\udd01">>,
    <<"\\ud835", "\\udd02">>, <<"\\ud835", "\\udd03">>, <<"\\ud835", "\\udd04">>,
    <<"\\ud835", "\\udd05">>, <<"\\ud835", "\\udd07">>, <<"\\ud835", "\\udd08">>,
    <<"\\ud835", "\\udd09">>, <<"\\ud835", "\\udd0a">>, <<"\\ud835", "\\udd0d">>,
    <<"\\ud835", "\\udd0e">>, <<"\\ud835", "\\udd0f">>, <<"\\ud835", "\\udd10">>,
    <<"\\ud835", "\\udd11">>, <<"\\ud835", "\\udd12">>, <<"\\ud835", "\\udd13">>,
    <<"\\ud835", "\\udd14">>, <<"\\ud835", "\\udd16">>, <<"\\ud835", "\\udd17">>,
    <<"\\ud835", "\\udd18">>, <<"\\ud835", "\\udd19">>, <<"\\ud835", "\\udd1a">>,
    <<"\\ud835", "\\udd1b">>, <<"\\ud835", "\\udd1c">>, <<"\\ud835", "\\udd1e">>,
    <<"\\ud835", "\\udd1f">>, <<"\\ud835", "\\udd20">>, <<"\\ud835", "\\udd21">>,
    <<"\\ud835", "\\udd22">>, <<"\\ud835", "\\udd23">>, <<"\\ud835", "\\udd24">>,
    <<"\\ud835", "\\udd25">>, <<"\\ud835", "\\udd26">>, <<"\\ud835", "\\udd27">>,
    <<"\\ud835", "\\udd28">>, <<"\\ud835", "\\udd29">>, <<"\\ud835", "\\udd2a">>,
    <<"\\ud835", "\\udd2b">>, <<"\\ud835", "\\udd2c">>, <<"\\ud835", "\\udd2d">>,
    <<"\\ud835", "\\udd2e">>, <<"\\ud835", "\\udd2f">>, <<"\\ud835", "\\udd30">>,
    <<"\\ud835", "\\udd31">>, <<"\\ud835", "\\udd32">>, <<"\\ud835", "\\udd33">>,
    <<"\\ud835", "\\udd34">>, <<"\\ud835", "\\udd35">>, <<"\\ud835", "\\udd36">>,
    <<"\\ud835", "\\udd37">>, <<"\\ud835", "\\udd38">>, <<"\\ud835", "\\udd39">>,
    <<"\\ud835", "\\udd3b">>, <<"\\ud835", "\\udd3c">>, <<"\\ud835", "\\udd3d">>,
    <<"\\ud835", "\\udd3e">>, <<"\\ud835", "\\udd40">>, <<"\\ud835", "\\udd41">>,
    <<"\\ud835", "\\udd42">>, <<"\\ud835", "\\udd43">>, <<"\\ud835", "\\udd44">>,
    <<"\\ud835", "\\udd46">>, <<"\\ud835", "\\udd4a">>, <<"\\ud835", "\\udd4b">>,
    <<"\\ud835", "\\udd4c">>, <<"\\ud835", "\\udd4d">>, <<"\\ud835", "\\udd4e">>,
    <<"\\ud835", "\\udd4f">>, <<"\\ud835", "\\udd50">>, <<"\\ud835", "\\udd52">>,
    <<"\\ud835", "\\udd53">>, <<"\\ud835", "\\udd54">>, <<"\\ud835", "\\udd55">>,
    <<"\\ud835", "\\udd56">>, <<"\\ud835", "\\udd57">>, <<"\\ud835", "\\udd58">>,
    <<"\\ud835", "\\udd59">>, <<"\\ud835", "\\udd5a">>, <<"\\ud835", "\\udd5b">>,
    <<"\\ud835", "\\udd5c">>, <<"\\ud835", "\\udd5d">>, <<"\\ud835", "\\udd5e">>,
    <<"\\ud835", "\\udd5f">>, <<"\\ud835", "\\udd60">>, <<"\\ud835", "\\udd61">>,
    <<"\\ud835", "\\udd62">>, <<"\\ud835", "\\udd63">>, <<"\\ud835", "\\udd64">>,
    <<"\\ud835", "\\udd65">>, <<"\\ud835", "\\udd66">>, <<"\\ud835", "\\udd67">>,
    <<"\\ud835", "\\udd68">>, <<"\\ud835", "\\udd69">>, <<"\\ud835", "\\udd6a">>,
    <<"\\ud835", "\\udd6b">>, <<"\\ud835", "\\udd6c">>, <<"\\ud835", "\\udd6d">>,
    <<"\\ud835", "\\udd6e">>, <<"\\ud835", "\\udd6f">>, <<"\\ud835", "\\udd70">>,
    <<"\\ud835", "\\udd71">>, <<"\\ud835", "\\udd72">>, <<"\\ud835", "\\udd73">>,
    <<"\\ud835", "\\udd74">>, <<"\\ud835", "\\udd75">>, <<"\\ud835", "\\udd76">>,
    <<"\\ud835", "\\udd77">>, <<"\\ud835", "\\udd78">>, <<"\\ud835", "\\udd79">>,
    <<"\\ud835", "\\udd7a">>, <<"\\ud835", "\\udd7b">>, <<"\\ud835", "\\udd7c">>,
    <<"\\ud835", "\\udd7d">>, <<"\\ud835", "\\udd7e">>, <<"\\ud835", "\\udd7f">>,
    <<"\\ud835", "\\udd80">>, <<"\\ud835", "\\udd81">>, <<"\\ud835", "\\udd82">>,
    <<"\\ud835", "\\udd83">>, <<"\\ud835", "\\udd84">>, <<"\\ud835", "\\udd85">>,
    <<"\\ud835", "\\udd86">>, <<"\\ud835", "\\udd87">>, <<"\\ud835", "\\udd88">>,
    <<"\\ud835", "\\udd89">>, <<"\\ud835", "\\udd8a">>, <<"\\ud835", "\\udd8b">>,
    <<"\\ud835", "\\udd8c">>, <<"\\ud835", "\\udd8d">>, <<"\\ud835", "\\udd8e">>,
    <<"\\ud835", "\\udd8f">>, <<"\\ud835", "\\udd90">>, <<"\\ud835", "\\udd91">>,
    <<"\\ud835", "\\udd92">>, <<"\\ud835", "\\udd93">>, <<"\\ud835", "\\udd94">>,
    <<"\\ud835", "\\udd95">>, <<"\\ud835", "\\udd96">>, <<"\\ud835", "\\udd97">>,
    <<"\\ud835", "\\udd98">>, <<"\\ud835", "\\udd99">>, <<"\\ud835", "\\udd9a">>,
    <<"\\ud835", "\\udd9b">>, <<"\\ud835", "\\udd9c">>, <<"\\ud835", "\\udd9d">>,
    <<"\\ud835", "\\udd9e">>, <<"\\ud835", "\\udd9f">>, <<"\\ud835", "\\udda0">>,
    <<"\\ud835", "\\udda1">>, <<"\\ud835", "\\udda2">>, <<"\\ud835", "\\udda3">>,
    <<"\\ud835", "\\udda4">>, <<"\\ud835", "\\udda5">>, <<"\\ud835", "\\udda6">>,
    <<"\\ud835", "\\udda7">>, <<"\\ud835", "\\udda8">>, <<"\\ud835", "\\udda9">>,
    <<"\\ud835", "\\uddaa">>, <<"\\ud835", "\\uddab">>, <<"\\ud835", "\\uddac">>,
    <<"\\ud835", "\\uddad">>, <<"\\ud835", "\\uddae">>, <<"\\ud835", "\\uddaf">>,
    <<"\\ud835", "\\uddb0">>, <<"\\ud835", "\\uddb1">>, <<"\\ud835", "\\uddb2">>,
    <<"\\ud835", "\\uddb3">>, <<"\\ud835", "\\uddb4">>, <<"\\ud835", "\\uddb5">>,
    <<"\\ud835", "\\uddb6">>, <<"\\ud835", "\\uddb7">>, <<"\\ud835", "\\uddb8">>,
    <<"\\ud835", "\\uddb9">>, <<"\\ud835", "\\uddba">>, <<"\\ud835", "\\uddbb">>,
    <<"\\ud835", "\\uddbc">>, <<"\\ud835", "\\uddbd">>, <<"\\ud835", "\\uddbe">>,
    <<"\\ud835", "\\uddbf">>, <<"\\ud835", "\\uddc0">>, <<"\\ud835", "\\uddc1">>,
    <<"\\ud835", "\\uddc2">>, <<"\\ud835", "\\uddc3">>, <<"\\ud835", "\\uddc4">>,
    <<"\\ud835", "\\uddc5">>, <<"\\ud835", "\\uddc6">>, <<"\\ud835", "\\uddc7">>,
    <<"\\ud835", "\\uddc8">>, <<"\\ud835", "\\uddc9">>, <<"\\ud835", "\\uddca">>,
    <<"\\ud835", "\\uddcb">>, <<"\\ud835", "\\uddcc">>, <<"\\ud835", "\\uddcd">>,
    <<"\\ud835", "\\uddce">>, <<"\\ud835", "\\uddcf">>, <<"\\ud835", "\\uddd0">>,
    <<"\\ud835", "\\uddd1">>, <<"\\ud835", "\\uddd2">>, <<"\\ud835", "\\uddd3">>,
    <<"\\ud835", "\\uddd4">>, <<"\\ud835", "\\uddd5">>, <<"\\ud835", "\\uddd6">>,
    <<"\\ud835", "\\uddd7">>, <<"\\ud835", "\\uddd8">>, <<"\\ud835", "\\uddd9">>,
    <<"\\ud835", "\\uddda">>, <<"\\ud835", "\\udddb">>, <<"\\ud835", "\\udddc">>,
    <<"\\ud835", "\\udddd">>, <<"\\ud835", "\\uddde">>, <<"\\ud835", "\\udddf">>,
    <<"\\ud835", "\\udde0">>, <<"\\ud835", "\\udde1">>, <<"\\ud835", "\\udde2">>,
    <<"\\ud835", "\\udde3">>, <<"\\ud835", "\\udde4">>, <<"\\ud835", "\\udde5">>,
    <<"\\ud835", "\\udde6">>, <<"\\ud835", "\\udde7">>, <<"\\ud835", "\\udde8">>,
    <<"\\ud835", "\\udde9">>, <<"\\ud835", "\\uddea">>, <<"\\ud835", "\\uddeb">>,
    <<"\\ud835", "\\uddec">>, <<"\\ud835", "\\udded">>, <<"\\ud835", "\\uddee">>,
    <<"\\ud835", "\\uddef">>, <<"\\ud835", "\\uddf0">>, <<"\\ud835", "\\uddf1">>,
    <<"\\ud835", "\\uddf2">>, <<"\\ud835", "\\uddf3">>, <<"\\ud835", "\\uddf4">>,
    <<"\\ud835", "\\uddf5">>, <<"\\ud835", "\\uddf6">>, <<"\\ud835", "\\uddf7">>,
    <<"\\ud835", "\\uddf8">>, <<"\\ud835", "\\uddf9">>, <<"\\ud835", "\\uddfa">>,
    <<"\\ud835", "\\uddfb">>, <<"\\ud835", "\\uddfc">>, <<"\\ud835", "\\uddfd">>,
    <<"\\ud835", "\\uddfe">>, <<"\\ud835", "\\uddff">>, <<"\\ud835", "\\ude00">>,
    <<"\\ud835", "\\ude01">>, <<"\\ud835", "\\ude02">>, <<"\\ud835", "\\ude03">>,
    <<"\\ud835", "\\ude04">>, <<"\\ud835", "\\ude05">>, <<"\\ud835", "\\ude06">>,
    <<"\\ud835", "\\ude07">>, <<"\\ud835", "\\ude08">>, <<"\\ud835", "\\ude09">>,
    <<"\\ud835", "\\ude0a">>, <<"\\ud835", "\\ude0b">>, <<"\\ud835", "\\ude0c">>,
    <<"\\ud835", "\\ude0d">>, <<"\\ud835", "\\ude0e">>, <<"\\ud835", "\\ude0f">>,
    <<"\\ud835", "\\ude10">>, <<"\\ud835", "\\ude11">>, <<"\\ud835", "\\ude12">>,
    <<"\\ud835", "\\ude13">>, <<"\\ud835", "\\ude14">>, <<"\\ud835", "\\ude15">>,
    <<"\\ud835", "\\ude16">>, <<"\\ud835", "\\ude17">>, <<"\\ud835", "\\ude18">>,
    <<"\\ud835", "\\ude19">>, <<"\\ud835", "\\ude1a">>, <<"\\ud835", "\\ude1b">>,
    <<"\\ud835", "\\ude1c">>, <<"\\ud835", "\\ude1d">>, <<"\\ud835", "\\ude1e">>,
    <<"\\ud835", "\\ude1f">>, <<"\\ud835", "\\ude20">>, <<"\\ud835", "\\ude21">>,
    <<"\\ud835", "\\ude22">>, <<"\\ud835", "\\ude23">>, <<"\\ud835", "\\ude24">>,
    <<"\\ud835", "\\ude25">>, <<"\\ud835", "\\ude26">>, <<"\\ud835", "\\ude27">>,
    <<"\\ud835", "\\ude28">>, <<"\\ud835", "\\ude29">>, <<"\\ud835", "\\ude2a">>,
    <<"\\ud835", "\\ude2b">>, <<"\\ud835", "\\ude2c">>, <<"\\ud835", "\\ude2d">>,
    <<"\\ud835", "\\ude2e">>, <<"\\ud835", "\\ude2f">>, <<"\\ud835", "\\ude30">>,
    <<"\\ud835", "\\ude31">>, <<"\\ud835", "\\ude32">>, <<"\\ud835", "\\ude33">>,
    <<"\\ud835", "\\ude34">>, <<"\\ud835", "\\ude35">>, <<"\\ud835", "\\ude36">>,
    <<"\\ud835", "\\ude37">>, <<"\\ud835", "\\ude38">>, <<"\\ud835", "\\ude39">>,
    <<"\\ud835", "\\ude3a">>, <<"\\ud835", "\\ude3b">>, <<"\\ud835", "\\ude3c">>,
    <<"\\ud835", "\\ude3d">>, <<"\\ud835", "\\ude3e">>, <<"\\ud835", "\\ude3f">>,
    <<"\\ud835", "\\ude40">>, <<"\\ud835", "\\ude41">>, <<"\\ud835", "\\ude42">>,
    <<"\\ud835", "\\ude43">>, <<"\\ud835", "\\ude44">>, <<"\\ud835", "\\ude45">>,
    <<"\\ud835", "\\ude46">>, <<"\\ud835", "\\ude47">>, <<"\\ud835", "\\ude48">>,
    <<"\\ud835", "\\ude49">>, <<"\\ud835", "\\ude4a">>, <<"\\ud835", "\\ude4b">>,
    <<"\\ud835", "\\ude4c">>, <<"\\ud835", "\\ude4d">>, <<"\\ud835", "\\ude4e">>,
    <<"\\ud835", "\\ude4f">>, <<"\\ud835", "\\ude50">>, <<"\\ud835", "\\ude51">>,
    <<"\\ud835", "\\ude52">>, <<"\\ud835", "\\ude53">>, <<"\\ud835", "\\ude54">>,
    <<"\\ud835", "\\ude55">>, <<"\\ud835", "\\ude56">>, <<"\\ud835", "\\ude57">>,
    <<"\\ud835", "\\ude58">>, <<"\\ud835", "\\ude59">>, <<"\\ud835", "\\ude5a">>,
    <<"\\ud835", "\\ude5b">>, <<"\\ud835", "\\ude5c">>, <<"\\ud835", "\\ude5d">>,
    <<"\\ud835", "\\ude5e">>, <<"\\ud835", "\\ude5f">>, <<"\\ud835", "\\ude60">>,
    <<"\\ud835", "\\ude61">>, <<"\\ud835", "\\ude62">>, <<"\\ud835", "\\ude63">>,
    <<"\\ud835", "\\ude64">>, <<"\\ud835", "\\ude65">>, <<"\\ud835", "\\ude66">>,
    <<"\\ud835", "\\ude67">>, <<"\\ud835", "\\ude68">>, <<"\\ud835", "\\ude69">>,
    <<"\\ud835", "\\ude6a">>, <<"\\ud835", "\\ude6b">>, <<"\\ud835", "\\ude6c">>,
    <<"\\ud835", "\\ude6d">>, <<"\\ud835", "\\ude6e">>, <<"\\ud835", "\\ude6f">>,
    <<"\\ud835", "\\ude70">>, <<"\\ud835", "\\ude71">>, <<"\\ud835", "\\ude72">>,
    <<"\\ud835", "\\ude73">>, <<"\\ud835", "\\ude74">>, <<"\\ud835", "\\ude75">>,
    <<"\\ud835", "\\ude76">>, <<"\\ud835", "\\ude77">>, <<"\\ud835", "\\ude78">>,
    <<"\\ud835", "\\ude79">>, <<"\\ud835", "\\ude7a">>, <<"\\ud835", "\\ude7b">>,
    <<"\\ud835", "\\ude7c">>, <<"\\ud835", "\\ude7d">>, <<"\\ud835", "\\ude7e">>,
    <<"\\ud835", "\\ude7f">>, <<"\\ud835", "\\ude80">>, <<"\\ud835", "\\ude81">>,
    <<"\\ud835", "\\ude82">>, <<"\\ud835", "\\ude83">>, <<"\\ud835", "\\ude84">>,
    <<"\\ud835", "\\ude85">>, <<"\\ud835", "\\ude86">>, <<"\\ud835", "\\ude87">>,
    <<"\\ud835", "\\ude88">>, <<"\\ud835", "\\ude89">>, <<"\\ud835", "\\ude8a">>,
    <<"\\ud835", "\\ude8b">>, <<"\\ud835", "\\ude8c">>, <<"\\ud835", "\\ude8d">>,
    <<"\\ud835", "\\ude8e">>, <<"\\ud835", "\\ude8f">>, <<"\\ud835", "\\ude90">>,
    <<"\\ud835", "\\ude91">>, <<"\\ud835", "\\ude92">>, <<"\\ud835", "\\ude93">>,
    <<"\\ud835", "\\ude94">>, <<"\\ud835", "\\ude95">>, <<"\\ud835", "\\ude96">>,
    <<"\\ud835", "\\ude97">>, <<"\\ud835", "\\ude98">>, <<"\\ud835", "\\ude99">>,
    <<"\\ud835", "\\ude9a">>, <<"\\ud835", "\\ude9b">>, <<"\\ud835", "\\ude9c">>,
    <<"\\ud835", "\\ude9d">>, <<"\\ud835", "\\ude9e">>, <<"\\ud835", "\\ude9f">>,
    <<"\\ud835", "\\udea0">>, <<"\\ud835", "\\udea1">>, <<"\\ud835", "\\udea2">>,
    <<"\\ud835", "\\udea3">>, <<"\\ud835", "\\udea4">>, <<"\\ud835", "\\udea5">>,
    <<"\\ud835", "\\udea8">>, <<"\\ud835", "\\udea9">>, <<"\\ud835", "\\udeaa">>,
    <<"\\ud835", "\\udeab">>, <<"\\ud835", "\\udeac">>, <<"\\ud835", "\\udead">>,
    <<"\\ud835", "\\udeae">>, <<"\\ud835", "\\udeaf">>, <<"\\ud835", "\\udeb0">>,
    <<"\\ud835", "\\udeb1">>, <<"\\ud835", "\\udeb2">>, <<"\\ud835", "\\udeb3">>,
    <<"\\ud835", "\\udeb4">>, <<"\\ud835", "\\udeb5">>, <<"\\ud835", "\\udeb6">>,
    <<"\\ud835", "\\udeb7">>, <<"\\ud835", "\\udeb8">>, <<"\\ud835", "\\udeb9">>,
    <<"\\ud835", "\\udeba">>, <<"\\ud835", "\\udebb">>, <<"\\ud835", "\\udebc">>,
    <<"\\ud835", "\\udebd">>, <<"\\ud835", "\\udebe">>, <<"\\ud835", "\\udebf">>,
    <<"\\ud835", "\\udec0">>, <<"\\ud835", "\\udec2">>, <<"\\ud835", "\\udec3">>,
    <<"\\ud835", "\\udec4">>, <<"\\ud835", "\\udec5">>, <<"\\ud835", "\\udec6">>,
    <<"\\ud835", "\\udec7">>, <<"\\ud835", "\\udec8">>, <<"\\ud835", "\\udec9">>,
    <<"\\ud835", "\\udeca">>, <<"\\ud835", "\\udecb">>, <<"\\ud835", "\\udecc">>,
    <<"\\ud835", "\\udecd">>, <<"\\ud835", "\\udece">>, <<"\\ud835", "\\udecf">>,
    <<"\\ud835", "\\uded0">>, <<"\\ud835", "\\uded1">>, <<"\\ud835", "\\uded2">>,
    <<"\\ud835", "\\uded3">>, <<"\\ud835", "\\uded4">>, <<"\\ud835", "\\uded5">>,
    <<"\\ud835", "\\uded6">>, <<"\\ud835", "\\uded7">>, <<"\\ud835", "\\uded8">>,
    <<"\\ud835", "\\uded9">>, <<"\\ud835", "\\udeda">>, <<"\\ud835", "\\udedc">>,
    <<"\\ud835", "\\udedd">>, <<"\\ud835", "\\udede">>, <<"\\ud835", "\\udedf">>,
    <<"\\ud835", "\\udee0">>, <<"\\ud835", "\\udee1">>, <<"\\ud835", "\\udee2">>,
    <<"\\ud835", "\\udee3">>, <<"\\ud835", "\\udee4">>, <<"\\ud835", "\\udee5">>,
    <<"\\ud835", "\\udee6">>, <<"\\ud835", "\\udee7">>, <<"\\ud835", "\\udee8">>,
    <<"\\ud835", "\\udee9">>, <<"\\ud835", "\\udeea">>, <<"\\ud835", "\\udeeb">>,
    <<"\\ud835", "\\udeec">>, <<"\\ud835", "\\udeed">>, <<"\\ud835", "\\udeee">>,
    <<"\\ud835", "\\udeef">>, <<"\\ud835", "\\udef0">>, <<"\\ud835", "\\udef1">>,
    <<"\\ud835", "\\udef2">>, <<"\\ud835", "\\udef3">>, <<"\\ud835", "\\udef4">>,
    <<"\\ud835", "\\udef5">>, <<"\\ud835", "\\udef6">>, <<"\\ud835", "\\udef7">>,
    <<"\\ud835", "\\udef8">>, <<"\\ud835", "\\udef9">>, <<"\\ud835", "\\udefa">>,
    <<"\\ud835", "\\udefc">>, <<"\\ud835", "\\udefd">>, <<"\\ud835", "\\udefe">>,
    <<"\\ud835", "\\udeff">>, <<"\\ud835", "\\udf00">>, <<"\\ud835", "\\udf01">>,
    <<"\\ud835", "\\udf02">>, <<"\\ud835", "\\udf03">>, <<"\\ud835", "\\udf04">>,
    <<"\\ud835", "\\udf05">>, <<"\\ud835", "\\udf06">>, <<"\\ud835", "\\udf07">>,
    <<"\\ud835", "\\udf08">>, <<"\\ud835", "\\udf09">>, <<"\\ud835", "\\udf0a">>,
    <<"\\ud835", "\\udf0b">>, <<"\\ud835", "\\udf0c">>, <<"\\ud835", "\\udf0d">>,
    <<"\\ud835", "\\udf0e">>, <<"\\ud835", "\\udf0f">>, <<"\\ud835", "\\udf10">>,
    <<"\\ud835", "\\udf11">>, <<"\\ud835", "\\udf12">>, <<"\\ud835", "\\udf13">>,
    <<"\\ud835", "\\udf14">>, <<"\\ud835", "\\udf16">>, <<"\\ud835", "\\udf17">>,
    <<"\\ud835", "\\udf18">>, <<"\\ud835", "\\udf19">>, <<"\\ud835", "\\udf1a">>,
    <<"\\ud835", "\\udf1b">>, <<"\\ud835", "\\udf1c">>, <<"\\ud835", "\\udf1d">>,
    <<"\\ud835", "\\udf1e">>, <<"\\ud835", "\\udf1f">>, <<"\\ud835", "\\udf20">>,
    <<"\\ud835", "\\udf21">>, <<"\\ud835", "\\udf22">>, <<"\\ud835", "\\udf23">>,
    <<"\\ud835", "\\udf24">>, <<"\\ud835", "\\udf25">>, <<"\\ud835", "\\udf26">>,
    <<"\\ud835", "\\udf27">>, <<"\\ud835", "\\udf28">>, <<"\\ud835", "\\udf29">>,
    <<"\\ud835", "\\udf2a">>, <<"\\ud835", "\\udf2b">>, <<"\\ud835", "\\udf2c">>,
    <<"\\ud835", "\\udf2d">>, <<"\\ud835", "\\udf2e">>, <<"\\ud835", "\\udf2f">>,
    <<"\\ud835", "\\udf30">>, <<"\\ud835", "\\udf31">>, <<"\\ud835", "\\udf32">>,
    <<"\\ud835", "\\udf33">>, <<"\\ud835", "\\udf34">>, <<"\\ud835", "\\udf36">>,
    <<"\\ud835", "\\udf37">>, <<"\\ud835", "\\udf38">>, <<"\\ud835", "\\udf39">>,
    <<"\\ud835", "\\udf3a">>, <<"\\ud835", "\\udf3b">>, <<"\\ud835", "\\udf3c">>,
    <<"\\ud835", "\\udf3d">>, <<"\\ud835", "\\udf3e">>, <<"\\ud835", "\\udf3f">>,
    <<"\\ud835", "\\udf40">>, <<"\\ud835", "\\udf41">>, <<"\\ud835", "\\udf42">>,
    <<"\\ud835", "\\udf43">>, <<"\\ud835", "\\udf44">>, <<"\\ud835", "\\udf45">>,
    <<"\\ud835", "\\udf46">>, <<"\\ud835", "\\udf47">>, <<"\\ud835", "\\udf48">>,
    <<"\\ud835", "\\udf49">>, <<"\\ud835", "\\udf4a">>, <<"\\ud835", "\\udf4b">>,
    <<"\\ud835", "\\udf4c">>, <<"\\ud835", "\\udf4d">>, <<"\\ud835", "\\udf4e">>,
    <<"\\ud835", "\\udf50">>, <<"\\ud835", "\\udf51">>, <<"\\ud835", "\\udf52">>,
    <<"\\ud835", "\\udf53">>, <<"\\ud835", "\\udf54">>, <<"\\ud835", "\\udf55">>,
    <<"\\ud835", "\\udf56">>, <<"\\ud835", "\\udf57">>, <<"\\ud835", "\\udf58">>,
    <<"\\ud835", "\\udf59">>, <<"\\ud835", "\\udf5a">>, <<"\\ud835", "\\udf5b">>,
    <<"\\ud835", "\\udf5c">>, <<"\\ud835", "\\udf5d">>, <<"\\ud835", "\\udf5e">>,
    <<"\\ud835", "\\udf5f">>, <<"\\ud835", "\\udf60">>, <<"\\ud835", "\\udf61">>,
    <<"\\ud835", "\\udf62">>, <<"\\ud835", "\\udf63">>, <<"\\ud835", "\\udf64">>,
    <<"\\ud835", "\\udf65">>, <<"\\ud835", "\\udf66">>, <<"\\ud835", "\\udf67">>,
    <<"\\ud835", "\\udf68">>, <<"\\ud835", "\\udf69">>, <<"\\ud835", "\\udf6a">>,
    <<"\\ud835", "\\udf6b">>, <<"\\ud835", "\\udf6c">>, <<"\\ud835", "\\udf6d">>,
    <<"\\ud835", "\\udf6e">>, <<"\\ud835", "\\udf70">>, <<"\\ud835", "\\udf71">>,
    <<"\\ud835", "\\udf72">>, <<"\\ud835", "\\udf73">>, <<"\\ud835", "\\udf74">>,
    <<"\\ud835", "\\udf75">>, <<"\\ud835", "\\udf76">>, <<"\\ud835", "\\udf77">>,
    <<"\\ud835", "\\udf78">>, <<"\\ud835", "\\udf79">>, <<"\\ud835", "\\udf7a">>,
    <<"\\ud835", "\\udf7b">>, <<"\\ud835", "\\udf7c">>, <<"\\ud835", "\\udf7d">>,
    <<"\\ud835", "\\udf7e">>, <<"\\ud835", "\\udf7f">>, <<"\\ud835", "\\udf80">>,
    <<"\\ud835", "\\udf81">>, <<"\\ud835", "\\udf82">>, <<"\\ud835", "\\udf83">>,
    <<"\\ud835", "\\udf84">>, <<"\\ud835", "\\udf85">>, <<"\\ud835", "\\udf86">>,
    <<"\\ud835", "\\udf87">>, <<"\\ud835", "\\udf88">>, <<"\\ud835", "\\udf8a">>,
    <<"\\ud835", "\\udf8b">>, <<"\\ud835", "\\udf8c">>, <<"\\ud835", "\\udf8d">>,
    <<"\\ud835", "\\udf8e">>, <<"\\ud835", "\\udf8f">>, <<"\\ud835", "\\udf90">>,
    <<"\\ud835", "\\udf91">>, <<"\\ud835", "\\udf92">>, <<"\\ud835", "\\udf93">>,
    <<"\\ud835", "\\udf94">>, <<"\\ud835", "\\udf95">>, <<"\\ud835", "\\udf96">>,
    <<"\\ud835", "\\udf97">>, <<"\\ud835", "\\udf98">>, <<"\\ud835", "\\udf99">>,
    <<"\\ud835", "\\udf9a">>, <<"\\ud835", "\\udf9b">>, <<"\\ud835", "\\udf9c">>,
    <<"\\ud835", "\\udf9d">>, <<"\\ud835", "\\udf9e">>, <<"\\ud835", "\\udf9f">>,
    <<"\\ud835", "\\udfa0">>, <<"\\ud835", "\\udfa1">>, <<"\\ud835", "\\udfa2">>,
    <<"\\ud835", "\\udfa3">>, <<"\\ud835", "\\udfa4">>, <<"\\ud835", "\\udfa5">>,
    <<"\\ud835", "\\udfa6">>, <<"\\ud835", "\\udfa7">>, <<"\\ud835", "\\udfa8">>,
    <<"\\ud835", "\\udfaa">>, <<"\\ud835", "\\udfab">>, <<"\\ud835", "\\udfac">>,
    <<"\\ud835", "\\udfad">>, <<"\\ud835", "\\udfae">>, <<"\\ud835", "\\udfaf">>,
    <<"\\ud835", "\\udfb0">>, <<"\\ud835", "\\udfb1">>, <<"\\ud835", "\\udfb2">>,
    <<"\\ud835", "\\udfb3">>, <<"\\ud835", "\\udfb4">>, <<"\\ud835", "\\udfb5">>,
    <<"\\ud835", "\\udfb6">>, <<"\\ud835", "\\udfb7">>, <<"\\ud835", "\\udfb8">>,
    <<"\\ud835", "\\udfb9">>, <<"\\ud835", "\\udfba">>, <<"\\ud835", "\\udfbb">>,
    <<"\\ud835", "\\udfbc">>, <<"\\ud835", "\\udfbd">>, <<"\\ud835", "\\udfbe">>,
    <<"\\ud835", "\\udfbf">>, <<"\\ud835", "\\udfc0">>, <<"\\ud835", "\\udfc1">>,
    <<"\\ud835", "\\udfc2">>, <<"\\ud835", "\\udfc4">>, <<"\\ud835", "\\udfc5">>,
    <<"\\ud835", "\\udfc6">>, <<"\\ud835", "\\udfc7">>, <<"\\ud835", "\\udfc8">>,
    <<"\\ud835", "\\udfc9">>, <<"\\ud835", "\\udfca">>, <<"\\ud835", "\\udfcb">>,
    <<"\\ud837", "\\udf00">>, <<"\\ud837", "\\udf01">>, <<"\\ud837", "\\udf02">>,
    <<"\\ud837", "\\udf03">>, <<"\\ud837", "\\udf04">>, <<"\\ud837", "\\udf05">>,
    <<"\\ud837", "\\udf06">>, <<"\\ud837", "\\udf07">>, <<"\\ud837", "\\udf08">>,
    <<"\\ud837", "\\udf09">>, <<"\\ud837", "\\udf0b">>, <<"\\ud837", "\\udf0c">>,
    <<"\\ud837", "\\udf0d">>, <<"\\ud837", "\\udf0e">>, <<"\\ud837", "\\udf0f">>,
    <<"\\ud837", "\\udf10">>, <<"\\ud837", "\\udf11">>, <<"\\ud837", "\\udf12">>,
    <<"\\ud837", "\\udf13">>, <<"\\ud837", "\\udf14">>, <<"\\ud837", "\\udf15">>,
    <<"\\ud837", "\\udf16">>, <<"\\ud837", "\\udf17">>, <<"\\ud837", "\\udf18">>,
    <<"\\ud837", "\\udf19">>, <<"\\ud837", "\\udf1a">>, <<"\\ud837", "\\udf1b">>,
    <<"\\ud837", "\\udf1c">>, <<"\\ud837", "\\udf1d">>, <<"\\ud837", "\\udf1e">>,
    <<"\\ud837", "\\udf25">>, <<"\\ud837", "\\udf26">>, <<"\\ud837", "\\udf27">>,
    <<"\\ud837", "\\udf28">>, <<"\\ud837", "\\udf29">>, <<"\\ud837", "\\udf2a">>,
    <<"\\ud83c", "\\udd30">>, <<"\\ud83c", "\\udd31">>, <<"\\ud83c", "\\udd32">>,
    <<"\\ud83c", "\\udd33">>, <<"\\ud83c", "\\udd34">>, <<"\\ud83c", "\\udd35">>,
    <<"\\ud83c", "\\udd36">>, <<"\\ud83c", "\\udd37">>, <<"\\ud83c", "\\udd38">>,
    <<"\\ud83c", "\\udd39">>, <<"\\ud83c", "\\udd3a">>, <<"\\ud83c", "\\udd3b">>,
    <<"\\ud83c", "\\udd3c">>, <<"\\ud83c", "\\udd3d">>, <<"\\ud83c", "\\udd3e">>,
    <<"\\ud83c", "\\udd3f">>, <<"\\ud83c", "\\udd40">>, <<"\\ud83c", "\\udd41">>,
    <<"\\ud83c", "\\udd42">>, <<"\\ud83c", "\\udd43">>, <<"\\ud83c", "\\udd44">>,
    <<"\\ud83c", "\\udd45">>, <<"\\ud83c", "\\udd46">>, <<"\\ud83c", "\\udd47">>,
    <<"\\ud83c", "\\udd48">>, <<"\\ud83c", "\\udd49">>, <<"\\ud83c", "\\udd50">>,
    <<"\\ud83c", "\\udd51">>, <<"\\ud83c", "\\udd52">>, <<"\\ud83c", "\\udd53">>,
    <<"\\ud83c", "\\udd54">>, <<"\\ud83c", "\\udd55">>, <<"\\ud83c", "\\udd56">>,
    <<"\\ud83c", "\\udd57">>, <<"\\ud83c", "\\udd58">>, <<"\\ud83c", "\\udd59">>,
    <<"\\ud83c", "\\udd5a">>, <<"\\ud83c", "\\udd5b">>, <<"\\ud83c", "\\udd5c">>,
    <<"\\ud83c", "\\udd5d">>, <<"\\ud83c", "\\udd5e">>, <<"\\ud83c", "\\udd5f">>,
    <<"\\ud83c", "\\udd60">>, <<"\\ud83c", "\\udd61">>, <<"\\ud83c", "\\udd62">>,
    <<"\\ud83c", "\\udd63">>, <<"\\ud83c", "\\udd64">>, <<"\\ud83c", "\\udd65">>,
    <<"\\ud83c", "\\udd66">>, <<"\\ud83c", "\\udd67">>, <<"\\ud83c", "\\udd68">>,
    <<"\\ud83c", "\\udd69">>, <<"\\ud83c", "\\udd70">>, <<"\\ud83c", "\\udd71">>,
    <<"\\ud83c", "\\udd72">>, <<"\\ud83c", "\\udd73">>, <<"\\ud83c", "\\udd74">>,
    <<"\\ud83c", "\\udd75">>, <<"\\ud83c", "\\udd76">>, <<"\\ud83c", "\\udd77">>,
    <<"\\ud83c", "\\udd78">>, <<"\\ud83c", "\\udd79">>, <<"\\ud83c", "\\udd7a">>,
    <<"\\ud83c", "\\udd7b">>, <<"\\ud83c", "\\udd7c">>, <<"\\ud83c", "\\udd7d">>,
    <<"\\ud83c", "\\udd7e">>, <<"\\ud83c", "\\udd7f">>, <<"\\ud83c", "\\udd80">>,
    <<"\\ud83c", "\\udd81">>, <<"\\ud83c", "\\udd82">>, <<"\\ud83c", "\\udd83">>,
    <<"\\ud83c", "\\udd84">>, <<"\\ud83c", "\\udd85">>, <<"\\ud83c", "\\udd86">>,
    <<"\\ud83c", "\\udd87">>, <<"\\ud83c", "\\udd88">>, <<"\\ud83c", "\\udd89">> }

\* The case-ignorable code points: marks, format controls, modifier letters
\* and symbols, and the punctuation that may stand inside a word.
CaseIgnorable ==
  { <<"'">>, <<".">>, <<":">>, <<"^">>, <<"\\u0060">>, <<"\\u00a8">>, <<"\\u00ad">>, <<"\\u00af">>,
    <<"\\u00b4">>, <<"\\u00b7">>, <<"\\u00b8">>, <<"\\u02b0">>, <<"\\u02b1">>, <<"\\u02b2">>,
    <<"\\u02b3">>, <<"\\u02b4">>, <<"\\u02b5">>, <<"\\u02b6">>, <<"\\u02b7">>, <<"\\u02b8">>,
    <<"\\u02b9">>, <<"\\u02ba">>, <<"\\u02bb">>, <<"\\u02bc">>, <<"\\u02bd">>, <<"\\u02be">>,
    <<"\\u02bf">>, <<"\\u02c0">>, <<"\\u02c1">>, <<"\\u02c2">>, <<"\\u02c3">>, <<"\\u02c4">>,
    <<"\\u02c5">>, <<"\\u02c6">>, <<"\\u02c7">>, <<"\\u02c8">>, <<"\\u02c9">>, <<"\\u02ca">>,
    <<"\\u02cb">>, <<"\\u02cc">>, <<"\\u02cd">>, <<"\\u02ce">>, <<"\\u02cf">>, <<"\\u02d0">>,
    <<"\\u02d1">>, <<"\\u02d2">>, <<"\\u02d3">>, <<"\\u02d4">>, <<"\\u02d5">>, <<"\\u02d6">>,
    <<"\\u02d7">>, <<"\\u02d8">>, <<"\\u02d9">>, <<"\\u02da">>, <<"\\u02db">>, <<"\\u02dc">>,
    <<"\\u02dd">>, <<"\\u02de">>, <<"\\u02df">>, <<"\\u02e0">>, <<"\\u02e1">>, <<"\\u02e2">>,
    <<"\\u02e3">>, <<"\\u02e4">>, <<"\\u02e5">>, <<"\\u02e6">>, <<"\\u02e7">>, <<"\\u02e8">>,
    <<"\\u02e9">>, <<"\\u02ea">>, <<"\\u02eb">>, <<"\\u02ec">>, <<"\\u02ed">>, <<"\\u02ee">>,
    <<"\\u02ef">>, <<"\\u02f0">>, <<"\\u02f1">>, <<"\\u02f2">>, <<"\\u02f3">>, <<"\\u02f4">>,
    <<"\\u02f5">>, <<"\\u02f6">>, <<"\\u02f7">>, <<"\\u02f8">>, <<"\\u02f9">>, <<"\\u02fa">>,
    <<"\\u02fb">>, <<"\\u02fc">>, <<"\\u02fd">>, <<"\\u02fe">>, <<"\\u02ff">>, <<"\\u0300">>,
    <<"\\u0301">>, <<"\\u0302">>, <<"\\u0303">>, <<"\\u0304">>, <<"\\u0305">>, <<"\\u0306">>,
    <<"\\u0307">>, <<"\\u0308">>, <<"\\u0309">>, <<"\\u030a">>, <<"\\u030b">>, <<"\\u030c">>,
    <<"\\u030d">>, <<"\\u030e">>, <<"\\u030f">>, <<"\\u0310">>, <<"\\u0311">>, <<"\\u0312">>,
    <<"\\u0313">>, <<"\\u0314">>, <<"\\u0315">>, <<"\\u0316">>, <<"\\u0317">>, <<"\\u0318">>,
    <<"\\u0319">>, <<"\\u031a">>, <<"\\u031b">>, <<"\\u031c">>, <<"\\u031d">>, <<"\\u031e">>,
    <<"\\u031f">>, <<"\\u0320">>, <<"\\u0321">>, <<"\\u0322">>, <<"\\u0323">>, <<"\\u0324">>,
    <<"\\u0325">>, <<"\\u0326">>, <<"\\u0327">>, <<"\\u0328">>, <<"\\u0329">>, <<"\\u032a">>,
    <<"\\u032b">>, <<"\\u032c">>, <<"\\u032d">>, <<"\\u032e">>, <<"\\u032f">>, <<"\\u0330">>,
    <<"\\u0331">>, <<"\\u0332">>, <<"\\u0333">>, <<"\\u0334">>, <<"\\u0335">>, <<"\\u0336">>,
    <<"\\u0337">>, <<"\\u0338">>, <<"\\u0339">>, <<"\\u033a">>, <<"\\u033b">>, <<"\\u033c">>,
    <<"\\u033d">>, <<"\\u033e">>, <<"\\u033f">>, <<"\\u0340">>, <<"\\u0341">>, <<"\\u0342">>,
    <<"\\u0343">>, <<"\\u0344">>, <<"\\u0345">>, <<"\\u0346">>, <<"\\u0347">>, <<"\\u0348">>,
    <<"\\u0349">>, <<"\\u034a">>, <<"\\u034b">>, <<"\\u034c">>, <<"\\u034d">>, <<"\\u034e">>,
    <<"\\u034f">>, <<"\\u0350">>, <<"\\u0351">>, <<"\\u0352">>, <<"\\u0353">>, <<"\\u0354">>,
    <<"\\u0355">>, <<"\\u0356">>, <<"\\u0357">>, <<"\\u0358">>, <<"\\u0359">>, <<"\\u035a">>,
    <<"\\u035b">>, <<"\\u035c">>, <<"\\u035d">>, <<"\\u035e">>, <<"\\u035f">>, <<"\\u0360">>,
    <<"\\u0361">>, <<"\\u0362">>, <<"\\u0363">>, <<"\\u0364">>, <<"\\u0365">>, <<"\\u0366">>,
    <<"\\u0367">>, <<"\\u0368">>, <<"\\u0369">>, <<"\\u036a">>, <<"\\u036b">>, <<"\\u036c">>,
    <<"\\u036d">>, <<"\\u036e">>, <<"\\u036f">>, <<"\\u0374">>, <<"\\u0375">>, <<"\\u037a">>,
    <<"\\u0384">>, <<"\\u0385">>, <<"\\u0387">>, <<"\\u0483">>, <<"\\u0484">>, <<"\\u0485">>,
    <<"\\u0486">>, <<"\\u0487">>, <<"\\u0488">>, <<"\\u0489">>, <<"\\u0559">>, <<"\\u055f">>,
    <<"\\u0591">>, <<"\\u0592">>, <<"\\u0593">>, <<"\\u0594">>, <<"\\u0595">>, <<"\\u0596">>,
    <<"\\u0597">>, <<"\\u0598">>, <<"\\u0599">>, <<"\\u059a">>, <<"\\u059b">>, <<"\\u059c">>,
    <<"\\u059d">>, <<"\\u059e">>, <<"\\u059f">>, <<"\\u05a0">>, <<"\\u05a1">>, <<"\\u05a2">>,
    <<"\\u05a3">>, <<"\\u05a4">>, <<"\\u05a5">>, <<"\\u05a6">>, <<"\\u05a7">>, <<"\\u05a8">>,
    <<"\\u05a9">>, <<"\\u05aa">>, <<"\\u05ab">>, <<"\\u05ac">>, <<"\\u05ad">>, <<"\\u05ae">>,
    <<"\\u05af">>, <<"\\u05b0">>, <<"\\u05b1">>, <<"\\u05b2">>, <<"\\u05b3">>, <<"\\u05b4">>,
    <<"\\u05b5">>, <<"\\u05b6">>, <<"\\u05b7">>, <<"\\u05b8">>, <<"\\u05b9">>, <<"\\u05ba">>,
    <<"\\u05bb">>, <<"\\u05bc">>, <<"\\u05bd">>, <<"\\u05bf">>, <<"\\u05c1">>, <<"\\u05c2">>,
    <<"\\u05c4">>, <<"\\u05c5">>, <<"\\u05c7">>, <<"\\u05f4">>, <<"\\u0600">>, <<"\\u0601">>,
    <<"\\u0602">>, <<"\\u0603">>, <<"\\u0604">>, <<"\\u0605">>, <<"\\u0610">>, <<"\\u0611">>,
    <<"\\u0612">>, <<"\\u0613">>, <<"\\u0614">>, <<"\\u0615">>, <<"\\u0616">>, <<"\\u0617">>,
    <<"\\u0618">>, <<"\\u0619">>, <<"\\u061a">>, <<"\\u061c">>, <<"\\u0640">>, <<"\\u064b">>,
    <<"\\u064c">>, <<"\\u064d">>, <<"\\u064e">>, <<"\\u064f">>, <<"\\u0650">>, <<"\\u0651">>,
    <<"\\u0652">>, <<"\\u0653">>, <<"\\u0654">>, <<"\\u0655">>, <<"\\u0656">>, <<"\\u0657">>,
    <<"\\u0658">>, <<"\\u0659">>, <<"\\u065a">>, <<"\\u065b">>, <<"\\u065c">>, <<"\\u065d">>,
    <<"\\u065e">>, <<"\\u065f">>, <<"\\u0670">>, <<"\\u06d6">>, <<"\\u06d7">>, <<"\\u06d8">>,
    <<"\\u06d9">>, <<"\\u06da">>, <<"\\u06db">>, <<"\\u06dc">>, <<"\\u06dd">>, <<"\\u06df">>,
    <<"\\u06e0">>, <<"\\u06e1">>, <<"\\u06e2">>, <<"\\u06e3">>, <<"\\u06e4">>, <<"\\u06e5">>,
    <<"\\u06e6">>, <<"\\u06e7">>, <<"\\u06e8">>, <<"\\u06ea">>, <<"\\u06eb">>, <<"\\u06ec">>,
    <<"\\u06ed">>, <<"\\u070f">>, <<"\\u0711">>, <<"\\u0730">>, <<"\\u0731">>, <<"\\u0732">>,
    <<"\\u0733">>, <<"\\u0734">>, <<"\\u0735">>, <<"\\u0736">>, <<"\\u0737">>, <<"\\u0738">>,
    <<"\\u0739">>, <<"\\u073a">>, <<"\\u073b">>, <<"\\u073c">>, <<"\\u073d">>, <<"\\u073e">>,
    <<"\\u073f">>, <<"\\u0740">>, <<"\\u0741">>, <<"\\u0742">>, <<"\\u0743">>, <<"\\u0744">>,
    <<"\\u0745">>, <<"\\u0746">>, <<"\\u0747">>, <<"\\u0748">>, <<"\\u0749">>, <<"\\u074a">>,
    <<"\\u07a6">>, <<"\\u07a7">>, <<"\\u07a8">>, <<"\\u07a9">>, <<"\\u07aa">>, <<"\\u07ab">>,
    <<"\\u07ac">>, <<"\\u07ad">>, <<"\\u07ae">>, <<"\\u07af">>, <<"\\u07b0">>, <<"\\u07eb">>,
    <<"\\u07ec">>, <<"\\u07ed">>, <<"\\u07ee">>, <<"\\u07ef">>, <<"\\u07f0">>, <<"\\u07f1">>,
    <<"\\u07f2">>, <<"\\u07f3">>, <<"\\u07f4">>, <<"\\u07f5">>, <<"\\u07fa">>, <<"\\u07fd">>,
    <<"\\u0816">>, <<"\\u0817">>, <<"\\u0818">>, <<"\\u0819">>, <<"\\u081a">>, <<"\\u081b">>,
    <<"\\u081c">>, <<"\\u081d">>, <<"\\u081e">>, <<"\\u081f">>, <<"\\u0820">>, <<"\\u0821">>,
    <<"\\u0822">>, <<"\\u0823">>, <<"\\u0824">>, <<"\\u0825">>, <<"\\u0826">>, <<"\\u0827">>,
    <<"\\u0828">>, <<"\\u0829">>, <<"\\u082a">>, <<"\\u082b">>, <<"\\u082c">>, <<"\\u082d">>,
    <<"\\u0859">>, <<"\\u085a">>, <<"\\u085b">>, <<"\\u0888">>, <<"\\u0890">>, <<"\\u0891">>,
    <<"\\u0897">>, <<"\\u0898">>, <<"\\u0899">>, <<"\\u089a">>, <<"\\u089b">>, <<"\\u089c">>,
    <<"\\u089d">>, <<"\\u089e">>, <<"\\u089f">>, <<"\\u08c9">>, <<"\\u08ca">>, <<"\\u08cb">>,
    <<"\\u08cc">>, <<"\\u08cd">>, <<"\\u08ce">>, <<"\\u08cf">>, <<"\\u08d0">>, <<"\\u08d1">>,
    <<"\\u08d2">>, <<"\\u08d3">>, <<"\\u08d4">>, <<"\\u08d5">>, <<"\\u08d6">>, <<"\\u08d7">>,
    <<"\\u08d8">>, <<"\\u08d9">>, <<"\\u08da">>, <<"\\u08db">>, <<"\\u08dc">>, <<"\\u08dd">>,
    <<"\\u08de">>, <<"\\u08df">>, <<"\\u08e0">>, <<"\\u08e1">>, <<"\\u08e2">>, <<"\\u08e3">>,
    <<"\\u08e4">>, <<"\\u08e5">>, <<"\\u08e6">>, <<"\\u08e7">>, <<"\\u08e8">>, <<"\\u08e9">>,
    <<"\\u08ea">>, <<"\\u08eb">>, <<"\\u08ec">>, <<"\\u08ed">>, <<"\\u08ee">>, <<"\\u08ef">>,
    <<"\\u08f0">>, <<"\\u08f1">>, <<"\\u08f2">>, <<"\\u08f3">>, <<"\\u08f4">>, <<"\\u08f5">>,
    <<"\\u08f6">>, <<"\\u08f7">>, <<"\\u08f8">>, <<"\\u08f9">>, <<"\\u08fa">>, <<"\\u08fb">>,
    <<"\\u08fc">>, <<"\\u08fd">>, <<"\\u08fe">>, <<"\\u08ff">>, <<"\\u0900">>, <<"\\u0901">>,
    <<"\\u0902">>, <<"\\u093a">>, <<"\\u093c">>, <<"\\u0941">>, <<"\\u0942">>, <<"\\u0943">>,
    <<"\\u0944">>, <<"\\u0945">>, <<"\\u0946">>, <<"\\u0947">>, <<"\\u0948">>, <<"\\u094d">>,
    <<"\\u0951">>, <<"\\u0952">>, <<"\\u0953">>, <<"\\u0954">>, <<"\\u0955">>, <<"\\u0956">>,
    <<"\\u0957">>, <<"\\u0962">>, <<"\\u0963">>, <<"\\u0971">>, <<"\\u0981">>, <<"\\u09bc">>,
    <<"\\u09c1">>, <<"\\u09c2">>, <<"\\u09c3">>, <<"\\u09c4">>, <<"\\u09cd">>, <<"\\u09e2">>,
    <<"\\u09e3">>, <<"\\u09fe">>, <<"\\u0a01">>, <<"\\u0a02">>, <<"\\u0a3c">>, <<"\\u0a41">>,
    <<"\\u0a42">>, <<"\\u0a47">>, <<"\\u0a48">>, <<"\\u0a4b">>, <<"\\u0a4c">>, <<"\\u0a4d">>,
    <<"\\u0a51">>, <<"\\u0a70">>, <<"\\u0a71">>, <<"\\u0a75">>, <<"\\u0a81">>, <<"\\u0a82">>,
    <<"\\u0abc">>, <<"\\u0ac1">>, <<"\\u0ac2">>, <<"\\u0ac3">>, <<"\\u0ac4">>, <<"\\u0ac5">>,
    <<"\\u0ac7">>, <<"\\u0ac8">>, <<"\\u0acd">>, <<"\\u0ae2">>, <<"\\u0ae3">>, <<"\\u0afa">>,
    <<"\\u0afb">>, <<"\\u0afc">>, <<"\\u0afd">>, <<"\\u0afe">>, <<"\\u0aff">>, <<"\\u0b01">>,
    <<"\\u0b3c">>, <<"\\u0b3f">>, <<"\\u0b41">>, <<"\\u0b42">>, <<"\\u0b43">>, <<"\\u0b44">>,
    <<"\\u0b4d">>, <<"\\u0b55">>, <<"\\u0b56">>, <<"\\u0b62">>, <<"\\u0b63">>, <<"\\u0b82">>,
    <<"\\u0bc0">>, <<"\\u0bcd">>, <<"\\u0c00">>, <<"\\u0c04">>, <<"\\u0c3c">>, <<"\\u0c3e">>,
    <<"\\u0c3f">>, <<"\\u0c40">>, <<"\\u0c46">>, <<"\\u0c47">>, <<"\\u0c48">>, <<"\\u0c4a">>,
    <<"\\u0c4b">>, <<"\\u0c4c">>, <<"\\u0c4d">>, <<"\\u0c55">>, <<"\\u0c56">>, <<"\\u0c62">>,
    <<"\\u0c63">>, <<"\\u0c81">>, <<"\\u0cbc">>, <<"\\u0cbf">>, <<"\\u0cc6">>, <<"\\u0ccc">>,
    <<"\\u0ccd">>, <<"\\u0ce2">>, <<"\\u0ce3">>, <<"\\u0d00">>, <<"\\u0d01">>, <<"\\u0d3b">>,
    <<"\\u0d3c">>, <<"\\u0d41">>, <<"\\u0d42">>, <<"\\u0d43">>, <<"\\u0d44">>, <<"\\u0d4d">>,
    <<"\\u0d62">>, <<"\\u0d63">>, <<"\\u0d81">>, <<"\\u0dca">>, <<"\\u0dd2">>, <<"\\u0dd3">>,
    <<"\\u0dd4">>, <<"\\u0dd6">>, <<"\\u0e31">>, <<"\\u0e34">>, <<"\\u0e35">>, <<"\\u0e36">>,
    <<"\\u0e37">>, <<"\\u0e38">>, <<"\\u0e39">>, <<"\\u0e3a">>, <<"\\u0e46">>, <<"\\u0e47">>,
    <<"\\u0e48">>, <<"\\u0e49">>, <<"\\u0e4a">>, <<"\\u0e4b">>, <<"\\u0e4c">>, <<"\\u0e4d">>,
    <<"\\u0e4e">>, <<"\\u0eb1">>, <<"\\u0eb4">>, <<"\\u0eb5">>, <<"\\u0eb6">>, <<"\\u0eb7">>,
    <<"\\u0eb8">>, <<"\\u0eb9">>, <<"\\u0eba">>, <<"\\u0ebb">>, <<"\\u0ebc">>, <<"\\u0ec6">>,
    <<"\\u0ec8">>, <<"\\u0ec9">>, <<"\\u0eca">>, <<"\\u0ecb">>, <<"\\u0ecc">>, <<"\\u0ecd">>,
    <<"\\u0ece">>, <<"\\u0f18">>, <<"\\u0f19">>, <<"\\u0f35">>, <<"\\u0f37">>, <<"\\u0f39">>,
    <<"\\u0f71">>, <<"\\u0f72">>, <<"\\u0f73">>, <<"\\u0f74">>, <<"\\u0f75">>, <<"\\u0f76">>,
    <<"\\u0f77">>, <<"\\u0f78">>, <<"\\u0f79">>, <<"\\u0f7a">>, <<"\\u0f7b">>, <<"\\u0f7c">>,
    <<"\\u0f7d">>, <<"\\u0f7e">>, <<"\\u0f80">>, <<"\\u0f81">>, <<"\\u0f82">>, <<"\\u0f83">>,
    <<"\\u0f84">>, <<"\\u0f86">>, <<"\\u0f87">>, <<"\\u0f8d">>, <<"\\u0f8e">>, <<"\\u0f8f">>,
    <<"\\u0f90">>, <<"\\u0f91">>, <<"\\u0f92">>, <<"\\u0f93">>, <<"\\u0f94">>, <<"\\u0f95">>,
    <<"\\u0f96">>, <<"\\u0f97">>, <<"\\u0f99">>, <<"\\u0f9a">>, <<"\\u0f9b">>, <<"\\u0f9c">>,
    <<"\\u0f9d">>, <<"\\u0f9e">>, <<"\\u0f9f">>, <<"\\u0fa0">>, <<"\\u0fa1">>, <<"\\u0fa2">>,
    <<"\\u0fa3">>, <<"\\u0fa4">>, <<"\\u0fa5">>, <<"\\u0fa6">>, <<"\\u0fa7">>, <<"\\u0fa8">>,
    <<"\\u0fa9">>, <<"\\u0faa">>, <<"\\u0fab">>, <<"\\u0fac">>, <<"\\u0fad">>, <<"\\u0fae">>,
    <<"\\u0faf">>, <<"\\u0fb0">>, <<"\\u0fb1">>, <<"\\u0fb2">>, <<"\\u0fb3">>, <<"\\u0fb4">>,
    <<"\\u0fb5">>, <<"\\u0fb6">>, <<"\\u0fb7">>, <<"\\u0fb8">>, <<"\\u0fb9">>, <<"\\u0fba">>,
    <<"\\u0fbb">>, <<"\\u0fbc">>, <<"\\u0fc6">>, <<"\\u102d">>, <<"\\u102e">>, <<"\\u102f">>,
    <<"\\u1030">>, <<"\\u1032">>, <<"\\u1033">>, <<"\\u1034">>, <<"\\u1035">>, <<"\\u1036">>,
    <<"\\u1037">>, <<"\\u1039">>, <<"\\u103a">>, <<"\\u103d">>, <<"\\u103e">>, <<"\\u1058">>,
    <<"\\u1059">>, <<"\\u105e">>, <<"\\u105f">>, <<"\\u1060">>, <<"\\u1071">>, <<"\\u1072">>,
    <<"\\u1073">>, <<"\\u1074">>, <<"\\u1082">>, <<"\\u1085">>, <<"\\u1086">>, <<"\\u108d">>,
    <<"\\u109d">>, <<"\\u10fc">>, <<"\\u135d">>, <<"\\u135e">>, <<"\\u135f">>, <<"\\u1712">>,
    <<"\\u1713">>, <<"\\u1714">>, <<"\\u1732">>, <<"\\u1733">>, <<"\\u1752">>, <<"\\u1753">>,
    <<"\\u1772">>, <<"\\u1773">>, <<"\\u17b4">>, <<"\\u17b5">>, <<"\\u17b7">>, <<"\\u17b8">>,
    <<"\\u17b9">>, <<"\\u17ba">>, <<"\\u17bb">>, <<"\\u17bc">>, <<"\\u17bd">>, <<"\\u17c6">>,
    <<"\\u17c9">>, <<"\\u17ca">>, <<"\\u17cb">>, <<"\\u17cc">>, <<"\\u17cd">>, <<"\\u17ce">>,
    <<"\\u17cf">>, <<"\\u17d0">>, <<"\\u17d1">>, <<"\\u17d2">>, <<"\\u17d3">>, <<"\\u17d7">>,
    <<"\\u17dd">>, <<"\\u180b">>, <<"\\u180c">>, <<"\\u180d">>, <<"\\u180e">>, <<"\\u180f">>,
    <<"\\u1843">>, <<"\\u1885">>, <<"\\u1886">>, <<"\\u18a9">>, <<"\\u1920">>, <<"\\u1921">>,
    <<"\\u1922">>, <<"\\u1927">>, <<"\\u1928">>, <<"\\u1932">>, <<"\\u1939">>, <<"\\u193a">>,
    <<"\\u193b">>, <<"\\u1a17">>, <<"\\u1a18">>, <<"\\u1a1b">>, <<"\\u1a56">>, <<"\\u1a58">>,
    <<"\\u1a59">>, <<"\\u1a5a">>, <<"\\u1a5b">>, <<"\\u1a5c">>, <<"\\u1a5d">>, <<"\\u1a5e">>,
    <<"\\u1a60">>, <<"\\u1a62">>, <<"\\u1a65">>, <<"\\u1a66">>, <<"\\u1a67">>, <<"\\u1a68">>,
    <<"\\u1a69">>, <<"\\u1a6a">>, <<"\\u1a6b">>, <<"\\u1a6c">>, <<"\\u1a73">>, <<"\\u1a74">>,
    <<"\\u1a75">>, <<"\\u1a76">>, <<"\\u1a77">>, <<"\\u1a78">>, <<"\\u1a79">>, <<"\\u1a7a">>,
    <<"\\u1a7b">>, <<"\\u1a7c">>, <<"\\u1a7f">>, <<"\\u1aa7">>, <<"\\u1ab0">>, <<"\\u1ab1">>,
    <<"\\u1ab2">>, <<"\\u1ab3">>, <<"\\u1ab4">>, <<"\\u1ab5">>, <<"\\u1ab6">>, <<"\\u1ab7">>,
    <<"\\u1ab8">>, <<"\\u1ab9">>, <<"\\u1aba">>, <<"\\u1abb">>, <<"\\u1abc">>, <<"\\u1abd">>,
    <<"\\u1abe">>, <<"\\u1abf">>, <<"\\u1ac0">>, <<"\\u1ac1">>, <<"\\u1ac2">>, <<"\\u1ac3">>,
    <<"\\u1ac4">>, <<"\\u1ac5">>, <<"\\u1ac6">>, <<"\\u1ac7">>, <<"\\u1ac8">>, <<"\\u1ac9">>,
    <<"\\u1aca">>, <<"\\u1acb">>, <<"\\u1acc">>, <<"\\u1acd">>, <<"\\u1ace">>, <<"\\u1acf">>,
    <<"\\u1ad0">>, <<"\\u1ad1">>, <<"\\u1ad2">>, <<"\\u1ad3">>, <<"\\u1ad4">>, <<"\\u1ad5">>,
    <<"\\u1ad6">>, <<"\\u1ad7">>, <<"\\u1ad8">>, <<"\\u1ad9">>, <<"\\u1ada">>, <<"\\u1adb">>,
    <<"\\u1adc">>, <<"\\u1add">>, <<"\\u1ae0">>, <<"\\u1ae1">>, <<"\\u1ae2">>, <<"\\u1ae3">>,
    <<"\\u1ae4">>, <<"\\u1ae5">>, <<"\\u1ae6">>, <<"\\u1ae7">>, <<"\\u1ae8">>, <<"\\u1ae9">>,
    <<"\\u1aea">>, <<"\\u1aeb">>, <<"\\u1b00">>, <<"\\u1b01">>, <<"\\u1b02">>, <<"\\u1b03">>,
    <<"\\u1b34">>, <<"\\u1b36">>, <<"\\u1b37">>, <<"\\u1b38">>, <<"\\u1b39">>, <<"\\u1b3a">>,
    <<"\\u1b3c">>, <<"\\u1b42">>, <<"\\u1b6b">>, <<"\\u1b6c">>, <<"\\u1b6d">>, <<"\\u1b6e">>,
    <<"\\u1b6f">>, <<"\\u1b70">>, <<"\\u1b71">>, <<"\\u1b72">>, <<"\\u1b73">>, <<"\\u1b80">>,
    <<"\\u1b81">>, <<"\\u1ba2">>, <<"\\u1ba3">>, <<"\\u1ba4">>, <<"\\u1ba5">>, <<"\\u1ba8">>,
    <<"\\u1ba9">>, <<"\\u1bab">>, <<"\\u1bac">>, <<"\\u1bad">>, <<"\\u1be6">>, <<"\\u1be8">>,
    <<"\\u1be9">>, <<"\\u1bed">>, <<"\\u1bef">>, <<"\\u1bf0">>, <<"\\u1bf1">>, <<"\\u1c2c">>,
    <<"\\u1c2d">>, <<"\\u1c2e">>, <<"\\u1c2f">>, <<"\\u1c30">>, <<"\\u1c31">>, <<"\\u1c32">>,
    <<"\\u1c33">>, <<"\\u1c36">>, <<"\\u1c37">>, <<"\\u1c78">>, <<"\\u1c79">>, <<"\\u1c7a">>,
    <<"\\u1c7b">>, <<"\\u1c7c">>, <<"\\u1c7d">>, <<"\\u1cd0">>, <<"\\u1cd1">>, <<"\\u1cd2">>,
    <<"\\u1cd4">>, <<"\\u1cd5">>, <<"\\u1cd6">>, <<"\\u1cd7">>, <<"\\u1cd8">>, <<"\\u1cd9">>,
    <<"\\u1cda">>, <<"\\u1cdb">>, <<"\\u1cdc">>, <<"\\u1cdd">>, <<"\\u1cde">>, <<"\\u1cdf">>,
    <<"\\u1ce0">>, <<"\\u1ce2">>, <<"\\u1ce3">>, <<"\\u1ce4">>, <<"\\u1ce5">>, <<"\\u1ce6">>,
    <<"\\u1ce7">>, <<"\\u1ce8">>, <<"\\u1ced">>, <<"\\u1cf4">>, <<"\\u1cf8">>, <<"\\u1cf9">>,
    <<"\\u1d2c">>, <<"\\u1d2d">>, <<"\\u1d2e">>, <<"\\u1d2f">>, <<"\\u1d30">>, <<"\\u1d31">>,
    <<"\\u1d32">>, <<"\\u1d33">>, <<"\\u1d34">>, <<"\\u1d35">>, <<"\\u1d36">>, <<"\\u1d37">>,
    <<"\\u1d38">>, <<"\\u1d39">>, <<"\\u1d3a">>, <<"\\u1d3b">>, <<"\\u1d3c">>, <<"\\u1d3d">>,
    <<"\\u1d3e">>, <<"\\u1d3f">>, <<"\\u1d40">>, <<"\\u1d41">>, <<"\\u1d42">>, <<"\\u1d43">>,
    <<"\\u1d44">>, <<"\\u1d45">>, <<"\\u1d46">>, <<"\\u1d47">>, <<"\\u1d48">>, <<"\\u1d49">>,
    <<"\\u1d4a">>, <<"\\u1d4b">>, <<"\\u1d4c">>, <<"\\u1d4d">>, <<"\\u1d4e">>, <<"\\u1d4f">>,
    <<"\\u1d50">>, <<"\\u1d51">>, <<"\\u1d52">>, <<"\\u1d53">>, <<"\\u1d54">>, <<"\\u1d55">>,
    <<"\\u1d56">>, <<"\\u1d57">>, <<"\\u1d58">>, <<"\\u1d59">>, <<"\\u1d5a">>, <<"\\u1d5b">>,
    <<"\\u1d5c">>, <<"\\u1d5d">>, <<"\\u1d5e">>, <<"\\u1d5f">>, <<"\\u1d60">>, <<"\\u1d61">>,
    <<"\\u1d62">>, <<"\\u1d63">>, <<"\\u1d64">>, <<"\\u1d65">>, <<"\\u1d66">>, <<"\\u1d67">>,
    <<"\\u1d68">>, <<"\\u1d69">>, <<"\\u1d6a">>, <<"\\u1d78">>, <<"\\u1d9b">>, <<"\\u1d9c">>,
    <<"\\u1d9d">>, <<"\\u1d9e">>, <<"\\u1d9f">>, <<"\\u1da0">>, <<"\\u1da1">>, <<"\\u1da2">>,
    <<"\\u1da3">>, <<"\\u1da4">>, <<"\\u1da5">>, <<"\\u1da6">>, <<"\\u1da7">>, <<"\\u1da8">>,
    <<"\\u1da9">>, <<"\\u1daa">>, <<"\\u1dab">>, <<"\\u1dac">>, <<"\\u1dad">>, <<"\\u1dae">>,
    <<"\\u1daf">>, <<"\\u1db0">>, <<"\\u1db1">>, <<"\\u1db2">>, <<"\\u1db3">>, <<"\\u1db4">>,
    <<"\\u1db5">>, <<"\\u1db6">>, <<"\\u1db7">>, <<"\\u1db8">>, <<"\\u1db9">>, <<"\\u1dba">>,
    <<"\\u1dbb">>, <<"\\u1dbc">>, <<"\\u1dbd">>, <<"\\u1dbe">>, <<"\\u1dbf">>, <<"\\u1dc0">>,
    <<"\\u1dc1">>, <<"\\u1dc2">>, <<"\\u1dc3">>, <<"\\u1dc4">>, <<"\\u1dc5">>, <<"\\u1dc6">>,
    <<"\\u1dc7">>, <<"\\u1dc8">>, <<"\\u1dc9">>, <<"\\u1dca">>, <<"\\u1dcb">>, <<"\\u1dcc">>,
    <<"\\u1dcd">>, <<"\\u1dce">>, <<"\\u1dcf">>, <<"\\u1dd0">>, <<"\\u1dd1">>, <<"\\u1dd2">>,
    <<"\\u1dd3">>, <<"\\u1dd4">>, <<"\\u1dd5">>, <<"\\u1dd6">>, <<"\\u1dd7">>, <<"\\u1dd8">>,
    <<"\\u1dd9">>, <<"\\u1dda">>, <<"\\u1ddb">>, <<"\\u1ddc">>, <<"\\u1ddd">>, <<"\\u1dde">>,
    <<"\\u1ddf">>, <<"\\u1de0">>, <<"\\u1de1">>, <<"\\u1de2">>, <<"\\u1de3">>, <<"\\u1de4">>,
    <<"\\u1de5">>, <<"\\u1de6">>, <<"\\u1de7">>, <<"\\u1de8">>, <<"\\u1de9">>, <<"\\u1dea">>,
    <<"\\u1deb">>, <<"\\u1dec">>, <<"\\u1ded">>, <<"\\u1dee">>, <<"\\u1def">>, <<"\\u1df0">>,
    <<"\\u1df1">>, <<"\\u1df2">>, <<"\\u1df3">>, <<"\\u1df4">>, <<"\\u1df5">>, <<"\\u1df6">>,
    <<"\\u1df7">>, <<"\\u1df8">>, <<"\\u1df9">>, <<"\\u1dfa">>, <<"\\u1dfb">>, <<"\\u1dfc">>,
    <<"\\u1dfd">>, <<"\\u1dfe">>, <<"\\u1dff">>, <<"\\u1fbd">>, <<"\\u1fbf">>, <<"\\u1fc0">>,
    <<"\\u1fc1">>, <<"\\u1fcd">>, <<"\\u1fce">>, <<"\\u1fcf">>, <<"\\u1fdd">>, <<"\\u1fde">>,
    <<"\\u1fdf">>, <<"\\u1fed">>, <<"\\u1fee">>, <<"\\u1fef">>, <<"\\u1ffd">>, <<"\\u1ffe">>,
    <<"\\u200b">>, <<"\\u200c">>, <<"\\u200d">>, <<"\\u200e">>, <<"\\u200f">>, <<"\\u2018">>,
    <<"\\u2019">>, <<"\\u2024">>, <<"\\u2027">>, <<"\\u202a">>, <<"\\u202b">>, <<"\\u202c">>,
    <<"\\u202d">>, <<"\\u202e">>, <<"\\u2060">>, <<"\\u2061">>, <<"\\u2062">>, <<"\\u2063">>,
    <<"\\u2064">>, <<"\\u2066">>, <<"\\u2067">>, <<"\\u2068">>, <<"\\u2069">>, <<"\\u206a">>,
    <<"\\u206b">>, <<"\\u206c">>, <<"\\u206d">>, <<"\\u206e">>, <<"\\u206f">>, <<"\\u2071">>,
    <<"\\u207f">>, <<"\\u2090">>, <<"\\u2091">>, <<"\\u2092">>, <<"\\u2093">>, <<"\\u2094">>,
    <<"\\u2095">>, <<"\\u2096">>, <<"\\u2097">>, <<"\\u2098">>, <<"\\u2099">>, <<"\\u209a">>,
    <<"\\u209b">>, <<"\\u209c">>, <<"\\u20d0">>, <<"\\u20d1">>, <<"\\u20d2">>, <<"\\u20d3">>,
    <<"\\u20d4">>, <<"\\u20d5">>, <<"\\u20d6">>, <<"\\u20d7">>, <<"\\u20d8">>, <<"\\u20d9">>,
    <<"\\u20da">>, <<"\\u20db">>, <<"\\u20dc">>, <<"\\u20dd">>, <<"\\u20de">>, <<"\\u20df">>,
    <<"\\u20e0">>, <<"\\u20e1">>, <<"\\u20e2">>, <<"\\u20e3">>, <<"\\u20e4">>, <<"\\u20e5">>,
    <<"\\u20e6">>, <<"\\u20e7">>, <<"\\u20e8">>, <<"\\u20e9">>, <<"\\u20ea">>, <<"\\u20eb">>,
    <<"\\u20ec">>, <<"\\u20ed">>, <<"\\u20ee">>, <<"\\u20ef">>, <<"\\u20f0">>, <<"\\u2c7c">>,
    <<"\\u2c7d">>, <<"\\u2cef">>, <<"\\u2cf0">>, <<"\\u2cf1">>, <<"\\u2d6f">>, <<"\\u2d7f">>,
    <<"\\u2de0">>, <<"\\u2de1">>, <<"\\u2de2">>, <<"\\u2de3">>, <<"\\u2de4">>, <<"\\u2de5">>,
    <<"\\u2de6">>, <<"\\u2de7">>, <<"\\u2de8">>, <<"\\u2de9">>, <<"\\u2dea">>, <<"\\u2deb">>,
    <<"\\u2dec">>, <<"\\u2ded">>, <<"\\u2dee">>, <<"\\u2def">>, <<"\\u2df0">>, <<"\\u2df1">>,
    <<"\\u2df2">>, <<"\\u2df3">>, <<"\\u2df4">>, <<"\\u2df5">>, <<"\\u2df6">>, <<"\\u2df7">>,
    <<"\\u2df8">>, <<"\\u2df9">>, <<"\\u2dfa">>, <<"\\u2dfb">>, <<"\\u2dfc">>, <<"\\u2dfd">>,
    <<"\\u2dfe">>, <<"\\u2dff">>, <<"\\u2e2f">>, <<"\\u3005">>, <<"\\u302a">>, <<"\\u302b">>,
    <<"\\u302c">>, <<"\\u302d">>, <<"\\u3031">>, <<"\\u3032">>, <<"\\u3033">>, <<"\\u3034">>,
    <<"\\u3035">>, <<"\\u303b">>, <<"\\u3099">>, <<"\\u309a">>, <<"\\u309b">>, <<"\\u309c">>,
    <<"\\u309d">>, <<"\\u309e">>, <<"\\u30fc">>, <<"\\u30fd">>, <<"\\u30fe">>, <<"\\ua015">>,
    <<"\\ua4f8">>, <<"\\ua4f9">>, <<"\\ua4fa">>, <<"\\ua4fb">>, <<"\\ua4fc">>, <<"\\ua4fd">>,
    <<"\\ua60c">>, <<"\\ua66f">>, <<"\\ua670">>, <<"\\ua671">>, <<"\\ua672">>, <<"\\ua674">>,
    <<"\\ua675">>, <<"\\ua676">>, <<"\\ua677">>, <<"\\ua678">>, <<"\\ua679">>, <<"\\ua67a">>,
    <<"\\ua67b">>, <<"\\ua67c">>, <<"\\ua67d">>, <<"\\ua67f">>, <<"\\ua69c">>, <<"\\ua69d">>,
    <<"\\ua69e">>, <<"\\ua69f">>, <<"\\ua6f0">>, <<"\\ua6f1">>, <<"\\ua700">>, <<"\\ua701">>,
    <<"\\ua702">>, <<"\\ua703">>, <<"\\ua704">>, <<"\\ua705">>, <<"\\ua706">>, <<"\\ua707">>,
    <<"\\ua708">>, <<"\\ua709">>, <<"\\ua70a">>, <<"\\ua70b">>, <<"\\ua70c">>, <<"\\ua70d">>,
    <<"\\ua70e">>, <<"\\ua70f">>, <<"\\ua710">>, <<"\\ua711">>, <<"\\ua712">>, <<"\\ua713">>,
    <<"\\ua714">>, <<"\\ua715">>, <<"\\ua716">>, <<"\\ua717">>, <<"\\ua718">>, <<"\\ua719">>,
    <<"\\ua71a">>, <<"\\ua71b">>, <<"\\ua71c">>, <<"\\ua71d">>, <<"\\ua71e">>, <<"\\ua71f">>,
    <<"\\ua720">>, <<"\\ua721">>, <<"\\ua770">>, <<"\\ua788">>, <<"\\ua789">>, <<"\\ua78a">>,
    <<"\\ua7f1">>, <<"\\ua7f2">>, <<"\\ua7f3">>, <<"\\ua7f4">>, <<"\\ua7f8">>, <<"\\ua7f9">>,
    <<"\\ua802">>, <<"\\ua806">>, <<"\\ua80b">>, <<"\\ua825">>, <<"\\ua826">>, <<"\\ua82c">>,
    <<"\\ua8c4">>, <<"\\ua8c5">>, <<"\\ua8e0">>, <<"\\ua8e1">>, <<"\\ua8e2">>, <<"\\ua8e3">>,
    <<"\\ua8e4">>, <<"\\ua8e5">>, <<"\\ua8e6">>, <<"\\ua8e7">>, <<"\\ua8e8">>, <<"\\ua8e9">>,
    <<"\\ua8ea">>, <<"\\ua8eb">>, <<"\\ua8ec">>, <<"\\ua8ed">>, <<"\\ua8ee">>, <<"\\ua8ef">>,
    <<"\\ua8f0">>, <<"\\ua8f1">>, <<"\\ua8ff">>, <<"\\ua926">>, <<"\\ua927">>, <<"\\ua928">>,
    <<"\\ua929">>, <<"\\ua92a">>, <<"\\ua92b">>, <<"\\ua92c">>, <<"\\ua92d">>, <<"\\ua947">>,
    <<"\\ua948">>, <<"\\ua949">>, <<"\\ua94a">>, <<"\\ua94b">>, <<"\\ua94c">>, <<"\\ua94d">>,
    <<"\\ua94e">>, <<"\\ua94f">>, <<"\\ua950">>, <<"\\ua951">>, <<"\\ua980">>, <<"\\ua981">>,
    <<"\\ua982">>, <<"\\ua9b3">>, <<"\\ua9b6">>, <<"\\ua9b7">>, <<"\\ua9b8">>, <<"\\ua9b9">>,
    <<"\\ua9bc">>, <<"\\ua9bd">>, <<"\\ua9cf">>, <<"\\ua9e5">>, <<"\\ua9e6">>, <<"\\uaa29">>,
    <<"\\uaa2a">>, <<"\\uaa2b">>, <<"\\uaa2c">>, <<"\\uaa2d">>, <<"\\uaa2e">>, <<"\\uaa31">>,
    <<"\\uaa32">>, <<"\\uaa35">>, <<"\\uaa36">>, <<"\\uaa43">>, <<"\\uaa4c">>, <<"\\uaa70">>,
    <<"\\uaa7c">>, <<"\\uaab0">>, <<"\\uaab2">>, <<"\\uaab3">>, <<"\\uaab4">>, <<"\\uaab7">>,
    <<"\\uaab8">>, <<"\\uaabe">>, <<"\\uaabf">>, <<"\\uaac1">>, <<"\\uaadd">>, <<"\\uaaec">>,
    <<"\\uaaed">>, <<"\\uaaf3">>, <<"\\uaaf4">>, <<"\\uaaf6">>, <<"\\uab5b">>, <<"\\uab5c">>,
    <<"\\uab5d">>, <<"\\uab5e">>, <<"\\uab5f">>, <<"\\uab69">>, <<"\\uab6a">>, <<"\\uab6b">>,
    <<"\\uabe5">>, <<"\\uabe8">>, <<"\\uabed">>, <<"\\ufb1e">>, <<"\\ufbb2">>, <<"\\ufbb3">>,
    <<"\\ufbb4">>, <<"\\ufbb5">>, <<"\\ufbb6">>, <<"\\ufbb7">>, <<"\\ufbb8">>, <<"\\ufbb9">>,
    <<"\\ufbba">>, <<"\\ufbbb">>, <<"\\ufbbc">>, <<"\\ufbbd">>, <<"\\ufbbe">>, <<"\\ufbbf">>,
    <<"\\ufbc0">>, <<"\\ufbc1">>, <<"\\ufbc2">>, <<"\\ufe00">>, <<"\\ufe01">>, <<"\\ufe02">>,
    <<"\\ufe03">>, <<"\\ufe04">>, <<"\\ufe05">>, <<"\\ufe06">>, <<"\\ufe07">>, <<"\\ufe08">>,
    <<"\\ufe09">>, <<"\\ufe0a">>, <<"\\ufe0b">>, <<"\\ufe0c">>, <<"\\ufe0d">>, <<"\\ufe0e">>,
    <<"\\ufe0f">>, <<"\\ufe13">>, <<"\\ufe20">>, <<"\\ufe21">>, <<"\\ufe22">>, <<"\\ufe23">>,
    <<"\\ufe24">>, <<"\\ufe25">>, <<"\\ufe26">>, <<"\\ufe27">>, <<"\\ufe28">>, <<"\\ufe29">>,
    <<"\\ufe2a">>, <<"\\ufe2b">>, <<"\\ufe2c">>, <<"\\ufe2d">>, <<"\\ufe2e">>, <<"\\ufe2f">>,
    <<"\\ufe52">>, <<"\\ufe55">>, <<"\\ufeff">>, <<"\\uff07">>, <<"\\uff0e">>, <<"\\uff1a">>,
    <<"\\uff3e">>, <<"\\uff40">>, <<"\\uff70">>, <<"\\uff9e">>, <<"\\uff9f">>, <<"\\uffe3">>,
    <<"\\ufff9">>, <<"\\ufffa">>, <<"\\ufffb">>, <<"\\ud800", "\\uddfd">>, <<"\\ud800", "\\udee0">>,
    <<"\\ud800", "\\udf76">>, <<"\\ud800", "\\udf77">>, <<"\\ud800", "\\udf78">>,
    <<"\\ud800", "\\udf79">>, <<"\\ud800", "\\udf7a">>, <<"\\ud801", "\\udf80">>,
    <<"\\ud801", "\\udf81">>, <<"\\ud801", "\\udf82">>, <<"\\ud801", "\\udf83">>,
    <<"\\ud801", "\\udf84">>, <<"\\ud801", "\\udf85">>, <<"\\ud801", "\\udf87">>,
    <<"\\ud801", "\\udf88">>, <<"\\ud801", "\\udf89">>, <<"\\ud801", "\\udf8a">>,
    <<"\\ud801", "\\udf8b">>, <<"\\ud801", "\\udf8c">>, <<"\\ud801", "\\udf8d">>,
    <<"\\ud801", "\\udf8e">>, <<"\\ud801", "\\udf8f">>, <<"\\ud801", "\\udf90">>,
    <<"\\ud801", "\\udf91">>, <<"\\ud801", "\\udf92">>, <<"\\ud801", "\\udf93">>,
    <<"\\ud801", "\\udf94">>, <<"\\ud801", "\\udf95">>, <<"\\ud801", "\\udf96">>,
    <<"\\ud801", "\\udf97">>, <<"\\ud801", "\\udf98">>, <<"\\ud801", "\\udf99">>,
    <<"\\ud801", "\\udf9a">>, <<"\\ud801", "\\udf9b">>, <<"\\ud801", "\\udf9c">>,
    <<"\\ud801", "\\udf9d">>, <<"\\ud801", "\\udf9e">>, <<"\\ud801", "\\udf9f">>,
    <<"\\ud801", "\\udfa0">>, <<"\\ud801", "\\udfa1">>, <<"\\ud801", "\\udfa2">>,
    <<"\\ud801", "\\udfa3">>, <<"\\ud801", "\\udfa4">>, <<"\\ud801", "\\udfa5">>,
    <<"\\ud801", "\\udfa6">>, <<"\\ud801", "\\udfa7">>, <<"\\ud801", "\\udfa8">>,
    <<"\\ud801", "\\udfa9">>, <<"\\ud801", "\\udfaa">>, <<"\\ud801", "\\udfab">>,
    <<"\\ud801", "\\udfac">>, <<"\\ud801", "\\udfad">>, <<"\\ud801", "\\udfae">>,
    <<"\\ud801", "\\udfaf">>, <<"\\ud801", "\\udfb0">>, <<"\\ud801", "\\udfb2">>,
    <<"\\ud801", "\\udfb3">>, <<"\\ud801", "\\udfb4">>, <<"\\ud801", "\\udfb5">>,
    <<"\\ud801", "\\udfb6">>, <<"\\ud801", "\\udfb7">>, <<"\\ud801", "\\udfb8">>,
    <<"\\ud801", "\\udfb9">>, <<"\\ud801", "\\udfba">>, <<"\\ud802", "\\ude01">>,
    <<"\\ud802", "\\ude02">>, <<"\\ud802", "\\ude03">>, <<"\\ud802", "\\ude05">>,
    <<"\\ud802", "\\ude06">>, <<"\\ud802", "\\ude0c">>, <<"\\ud802", "\\ude0d">>,
    <<"\\ud802", "\\ude0e">>, <<"\\ud802", "\\ude0f">>, <<"\\ud802", "\\ude38">>,
    <<"\\ud802", "\\ude39">>, <<"\\ud802", "\\ude3a">>, <<"\\ud802", "\\ude3f">>,
    <<"\\ud802", "\\udee5">>, <<"\\ud802", "\\udee6">>, <<"\\ud803", "\\udd24">>,
    <<"\\ud803", "\\udd25">>, <<"\\ud803", "\\udd26">>, <<"\\ud803", "\\udd27">>,
    <<"\\ud803", "\\udd4e">>, <<"\\ud803", "\\udd69">>, <<"\\ud803", "\\udd6a">>,
    <<"\\ud803", "\\udd6b">>, <<"\\ud803", "\\udd6c">>, <<"\\ud803", "\\udd6d">>,
    <<"\\ud803", "\\udd6f">>, <<"\\ud803", "\\udeab">>, <<"\\ud803", "\\udeac">>,
    <<"\\ud803", "\\udec5">>, <<"\\ud803", "\\udefa">>, <<"\\ud803", "\\udefb">>,
    <<"\\ud803", "\\udefc">>, <<"\\ud803", "\\udefd">>, <<"\\ud803", "\\udefe">>,
    <<"\\ud803", "\\udeff">>, <<"\\ud803", "\\udf46">>, <<"\\ud803", "\\udf47">>,
    <<"\\ud803", "\\udf48">>, <<"\\ud803", "\\udf49">>, <<"\\ud803", "\\udf4a">>,
    <<"\\ud803", "\\udf4b">>, <<"\\ud803", "\\udf4c">>, <<"\\ud803", "\\udf4d">>,
    <<"\\ud803", "\\udf4e">>, <<"\\ud803", "\\udf4f">>, <<"\\ud803", "\\udf50">>,
    <<"\\ud803", "\\udf82">>, <<"\\ud803", "\\udf83">>, <<"\\ud803", "\\udf84">>,
    <<"\\ud803", "\\udf85">>, <<"\\ud804", "\\udc01">>, <<"\\ud804", "\\udc38">>,
    <<"\\ud804", "\\udc39">>, <<"\\ud804", "\\udc3a">>, <<"\\ud804", "\\udc3b">>,
    <<"\\ud804", "\\udc3c">>, <<"\\ud804", "\\udc3d">>, <<"\\ud804", "\\udc3e">>,
    <<"\\ud804", "\\udc3f">>, <<"\\ud804", "\\udc40">>, <<"\\ud804", "\\udc41">>,
    <<"\\ud804", "\\udc42">>, <<"\\ud804", "\\udc43">>, <<"\\ud804", "\\udc44">>,
    <<"\\ud804", "\\udc45">>, <<"\\ud804", "\\udc46">>, <<"\\ud804", "\\udc70">>,
    <<"\\ud804", "\\udc73">>, <<"\\ud804", "\\udc74">>, <<"\\ud804", "\\udc7f">>,
    <<"\\ud804", "\\udc80">>, <<"\\ud804", "\\udc81">>, <<"\\ud804", "\\udcb3">>,
    <<"\\ud804", "\\udcb4">>, <<"\\ud804", "\\udcb5">>, <<"\\ud804", "\\udcb6">>,
    <<"\\ud804", "\\udcb9">>, <<"\\ud804", "\\udcba">>, <<"\\ud804", "\\udcbd">>,
    <<"\\ud804", "\\udcc2">>, <<"\\ud804", "\\udccd">>, <<"\\ud804", "\\udd00">>,
    <<"\\ud804", "\\udd01">>, <<"\\ud804", "\\udd02">>, <<"\\ud804", "\\udd27">>,
    <<"\\ud804", "\\udd28">>, <<"\\ud804", "\\udd29">>, <<"\\ud804", "\\udd2a">>,
    <<"\\ud804", "\\udd2b">>, <<"\\ud804", "\\udd2d">>, <<"\\ud804", "\\udd2e">>,
    <<"\\ud804", "\\udd2f">>, <<"\\ud804", "\\udd30">>, <<"\\ud804", "\\udd31">>,
    <<"\\ud804", "\\udd32">>, <<"\\ud804", "\\udd33">>, <<"\\ud804", "\\udd34">>,
    <<"\\ud804", "\\udd73">>, <<"\\ud804", "\\udd80">>, <<"\\ud804", "\\udd81">>,
    <<"\\ud804", "\\uddb6">>, <<"\\ud804", "\\uddb7">>, <<"\\ud804", "\\uddb8">>,
    <<"\\ud804", "\\uddb9">>, <<"\\ud804", "\\uddba">>, <<"\\ud804", "\\uddbb">>,
    <<"\\ud804", "\\uddbc">>, <<"\\ud804", "\\uddbd">>, <<"\\ud804", "\\uddbe">>,
    <<"\\ud804", "\\uddc9">>, <<"\\ud804", "\\uddca">>, <<"\\ud804", "\\uddcb">>,
    <<"\\ud804", "\\uddcc">>, <<"\\ud804", "\\uddcf">>, <<"\\ud804", "\\ude2f">>,
    <<"\\ud804", "\\ude30">>, <<"\\ud804", "\\ude31">>, <<"\\ud804", "\\ude34">>,
    <<"\\ud804", "\\ude36">>, <<"\\ud804", "\\ude37">>, <<"\\ud804", "\\ude3e">>,
    <<"\\ud804", "\\ude41">>, <<"\\ud804", "\\udedf">>, <<"\\ud804", "\\udee3">>,
    <<"\\ud804", "\\udee4">>, <<"\\ud804", "\\udee5">>, <<"\\ud804", "\\udee6">>,
    <<"\\ud804", "\\udee7">>, <<"\\ud804", "\\udee8">>, <<"\\ud804", "\\udee9">>,
    <<"\\ud804", "\\udeea">>, <<"\\ud804", "\\udf00">>, <<"\\ud804", "\\udf01">>,
    <<"\\ud804", "\\udf3b">>, <<"\\ud804", "\\udf3c">>, <<"\\ud804", "\\udf40">>,
    <<"\\ud804", "\\udf66">>, <<"\\ud804", "\\udf67">>, <<"\\ud804", "\\udf68">>,
    <<"\\ud804", "\\udf69">>, <<"\\ud804", "\\udf6a">>, <<"\\ud804", "\\udf6b">>,
    <<"\\ud804", "\\udf6c">>, <<"\\ud804", "\\udf70">>, <<"\\ud804", "\\udf71">>,
    <<"\\ud804", "\\udf72">>, <<"\\ud804", "\\udf73">>, <<"\\ud804", "\\udf74">>,
    <<"\\ud804", "\\udfbb">>, <<"\\ud804", "\\udfbc">>, <<"\\ud804", "\\udfbd">>,
    <<"\\ud804", "\\udfbe">>, <<"\\ud804", "\\udfbf">>, <<"\\ud804", "\\udfc0">>,
    <<"\\ud804", "\\udfce">>, <<"\\ud804", "\\udfd0">>, <<"\\ud804", "\\udfd2">>,
    <<"\\ud804", "\\udfe1">>, <<"\\ud804", "\\udfe2">>, <<"\\ud805", "\\udc38">>,
    <<"\\ud805", "\\udc39">>, <<"\\ud805", "\\udc3a">>, <<"\\ud805", "\\udc3b">>,
    <<"\\ud805", "\\udc3c">>, <<"\\ud805", "\\udc3d">>, <<"\\ud805", "\\udc3e">>,
    <<"\\ud805", "\\udc3f">>, <<"\\ud805", "\\udc42">>, <<"\\ud805", "\\udc43">>,
    <<"\\ud805", "\\udc44">>, <<"\\ud805", "\\udc46">>, <<"\\ud805", "\\udc5e">>,
    <<"\\ud805", "\\udcb3">>, <<"\\ud805", "\\udcb4">>, <<"\\ud805", "\\udcb5">>,
    <<"\\ud805", "\\udcb6">>, <<"\\ud805", "\\udcb7">>, <<"\\ud805", "\\udcb8">>,
    <<"\\ud805", "\\udcba">>, <<"\\ud805", "\\udcbf">>, <<"\\ud805", "\\udcc0">>,
    <<"\\ud805", "\\udcc2">>, <<"\\ud805", "\\udcc3">>, <<"\\ud805", "\\uddb2">>,
    <<"\\ud805", "\\uddb3">>, <<"\\ud805", "\\uddb4">>, <<"\\ud805", "\\uddb5">>,
    <<"\\ud805", "\\uddbc">>, <<"\\ud805", "\\uddbd">>, <<"\\ud805", "\\uddbf">>,
    <<"\\ud805", "\\uddc0">>, <<"\\ud805", "\\udddc">>, <<"\\ud805", "\\udddd">>,
    <<"\\ud805", "\\ude33">>, <<"\\ud805", "\\ude34">>, <<"\\ud805", "\\ude35">>,
    <<"\\ud805", "\\ude36">>, <<"\\ud805", "\\ude37">>, <<"\\ud805", "\\ude38">>,
    <<"\\ud805", "\\ude39">>, <<"\\ud805", "\\ude3a">>, <<"\\ud805", "\\ude3d">>,
    <<"\\ud805", "\\ude3f">>, <<"\\ud805", "\\ude40">>, <<"\\ud805", "\\udeab">>,
    <<"\\ud805", "\\udead">>, <<"\\ud805", "\\udeb0">>, <<"\\ud805", "\\udeb1">>,
    <<"\\ud805", "\\udeb2">>, <<"\\ud805", "\\udeb3">>, <<"\\ud805", "\\udeb4">>,
    <<"\\ud805", "\\udeb5">>, <<"\\ud805", "\\udeb7">>, <<"\\ud805", "\\udf1d">>,
    <<"\\ud805", "\\udf1f">>, <<"\\ud805", "\\udf22">>, <<"\\ud805", "\\udf23">>,
    <<"\\ud805", "\\udf24">>, <<"\\ud805", "\\udf25">>, <<"\\ud805", "\\udf27">>,
    <<"\\ud805", "\\udf28">>, <<"\\ud805", "\\udf29">>, <<"\\ud805", "\\udf2a">>,
    <<"\\ud805", "\\udf2b">>, <<"\\ud806", "\\udc2f">>, <<"\\ud806", "\\udc30">>,
    <<"\\ud806", "\\udc31">>, <<"\\ud806", "\\udc32">>, <<"\\ud806", "\\udc33">>,
    <<"\\ud806", "\\udc34">>, <<"\\ud806", "\\udc35">>, <<"\\ud806", "\\udc36">>,
    <<"\\ud806", "\\udc37">>, <<"\\ud806", "\\udc39">>, <<"\\ud806", "\\udc3a">>,
    <<"\\ud806", "\\udd3b">>, <<"\\ud806", "\\udd3c">>, <<"\\ud806", "\\udd3e">>,
    <<"\\ud806", "\\udd43">>, <<"\\ud806", "\\uddd4">>, <<"\\ud806", "\\uddd5">>,
    <<"\\ud806", "\\uddd6">>, <<"\\ud806", "\\uddd7">>, <<"\\ud806", "\\uddda">>,
    <<"\\ud806", "\\udddb">>, <<"\\ud806", "\\udde0">>, <<"\\ud806", "\\ude01">>,
    <<"\\ud806", "\\ude02">>, <<"\\ud806", "\\ude03">>, <<"\\ud806", "\\ude04">>,
    <<"\\ud806", "\\ude05">>, <<"\\ud806", "\\ude06">>, <<"\\ud806", "\\ude07">>,
    <<"\\ud806", "\\ude08">>, <<"\\ud806", "\\ude09">>, <<"\\ud806", "\\ude0a">>,
    <<"\\ud806", "\\ude33">>, <<"\\ud806", "\\ude34">>, <<"\\ud806", "\\ude35">>,
    <<"\\ud806", "\\ude36">>, <<"\\ud806", "\\ude37">>, <<"\\ud806", "\\ude38">>,
    <<"\\ud806", "\\ude3b">>, <<"\\ud806", "\\ude3c">>, <<"\\ud806", "\\ude3d">>,
    <<"\\ud806", "\\ude3e">>, <<"\\ud806", "\\ude47">>, <<"\\ud806", "\\ude51">>,
    <<"\\ud806", "\\ude52">>, <<"\\ud806", "\\ude53">>, <<"\\ud806", "\\ude54">>,
    <<"\\ud806", "\\ude55">>, <<"\\ud806", "\\ude56">>, <<"\\ud806", "\\ude59">>,
    <<"\\ud806", "\\ude5a">>, <<"\\ud806", "\\ude5b">>, <<"\\ud806", "\\ude8a">>,
    <<"\\ud806", "\\ude8b">>, <<"\\ud806", "\\ude8c">>, <<"\\ud806", "\\ude8d">>,
    <<"\\ud806", "\\ude8e">>, <<"\\ud806", "\\ude8f">>, <<"\\ud806", "\\ude90">>,
    <<"\\ud806", "\\ude91">>, <<"\\ud806", "\\ude92">>, <<"\\ud806", "\\ude93">>,
    <<"\\ud806", "\\ude94">>, <<"\\ud806", "\\ude95">>, <<"\\ud806", "\\ude96">>,
    <<"\\ud806", "\\ude98">>, <<"\\ud806", "\\ude99">>, <<"\\ud806", "\\udf60">>,
    <<"\\ud806", "\\udf62">>, <<"\\ud806", "\\udf63">>, <<"\\ud806", "\\udf64">>,
    <<"\\ud806", "\\udf66">>, <<"\\ud807", "\\udc30">>, <<"\\ud807", "\\udc31">>,
    <<"\\ud807", "\\udc32">>, <<"\\ud807", "\\udc33">>, <<"\\ud807", "\\udc34">>,
    <<"\\ud807", "\\udc35">>, <<"\\ud807", "\\udc36">>, <<"\\ud807", "\\udc38">>,
    <<"\\ud807", "\\udc39">>, <<"\\ud807", "\\udc3a">>, <<"\\ud807", "\\udc3b">>,
    <<"\\ud807", "\\udc3c">>, <<"\\ud807", "\\udc3d">>, <<"\\ud807", "\\udc3f">>,
    <<"\\ud807", "\\udc92">>, <<"\\ud807", "\\udc93">>, <<"\\ud807", "\\udc94">>,
    <<"\\ud807", "\\udc95">>, <<"\\ud807", "\\udc96">>, <<"\\ud807", "\\udc97">>,
    <<"\\ud807", "\\udc98">>, <<"\\ud807", "\\udc99">>, <<"\\ud807", "\\udc9a">>,
    <<"\\ud807", "\\udc9b">>, <<"\\ud807", "\\udc9c">>, <<"\\ud807", "\\udc9d">>,
    <<"\\ud807", "\\udc9e">>, <<"\\ud807", "\\udc9f">>, <<"\\ud807", "\\udca0">>,
    <<"\\ud807", "\\udca1">>, <<"\\ud807", "\\udca2">>, <<"\\ud807", "\\udca3">>,
    <<"\\ud807", "\\udca4">>, <<"\\ud807", "\\udca5">>, <<"\\ud807", "\\udca6">>,
    <<"\\ud807", "\\udca7">>, <<"\\ud807", "\\udcaa">>, <<"\\ud807", "\\udcab">>,
    <<"\\ud807", "\\udcac">>, <<"\\ud807", "\\udcad">>, <<"\\ud807", "\\udcae">>,
    <<"\\ud807", "\\udcaf">>, <<"\\ud807", "\\udcb0">>, <<"\\ud807", "\\udcb2">>,
    <<"\\ud807", "\\udcb3">>, <<"\\ud807", "\\udcb5">>, <<"\\ud807", "\\udcb6">>,
    <<"\\ud807", "\\udd31">>, <<"\\ud807", "\\udd32">>, <<"\\ud807", "\\udd33">>,
    <<"\\ud807", "\\udd34">>, <<"\\ud807", "\\udd35">>, <<"\\ud807", "\\udd36">>,
    <<"\\ud807", "\\udd3a">>, <<"\\ud807", "\\udd3c">>, <<"\\ud807", "\\udd3d">>,
    <<"\\ud807", "\\udd3f">>, <<"\\ud807", "\\udd40">>, <<"\\ud807", "\\udd41">>,
    <<"\\ud807", "\\udd42">>, <<"\\ud807", "\\udd43">>, <<"\\ud807", "\\udd44">>,
    <<"\\ud807", "\\udd45">>, <<"\\ud807", "\\udd47">>, <<"\\ud807", "\\udd90">>,
    <<"\\ud807", "\\udd91">>, <<"\\ud807", "\\udd95">>, <<"\\ud807", "\\udd97">>,
    <<"\\ud807", "\\uddd9">>, <<"\\ud807", "\\udef3">>, <<"\\ud807", "\\udef4">>,
    <<"\\ud807", "\\udf00">>, <<"\\ud807", "\\udf01">>, <<"\\ud807", "\\udf36">>,
    <<"\\ud807", "\\udf37">>, <<"\\ud807", "\\udf38">>, <<"\\ud807", "\\udf39">>,
    <<"\\ud807", "\\udf3a">>, <<"\\ud807", "\\udf40">>, <<"\\ud807", "\\udf42">>,
    <<"\\ud807", "\\udf5a">>, <<"\\ud80d", "\\udc30">>, <<"\\ud80d", "\\udc31">>,
    <<"\\ud80d", "\\udc32">>, <<"\\ud80d", "\\udc33">>, <<"\\ud80d", "\\udc34">>,
    <<"\\ud80d", "\\udc35">>, <<"\\ud80d", "\\udc36">>, <<"\\ud80d", "\\udc37">>,
    <<"\\ud80d", "\\udc38">>, <<"\\ud80d", "\\udc39">>, <<"\\ud80d", "\\udc3a">>,
    <<"\\ud80d", "\\udc3b">>, <<"\\ud80d", "\\udc3c">>, <<"\\ud80d", "\\udc3d">>,
    <<"\\ud80d", "\\udc3e">>, <<"\\ud80d", "\\udc3f">>, <<"\\ud80d", "\\udc40">>,
    <<"\\ud80d", "\\udc47">>, <<"\\ud80d", "\\udc48">>, <<"\\ud80d", "\\udc49">>,
    <<"\\ud80d", "\\udc4a">>, <<"\\ud80d", "\\udc4b">>, <<"\\ud80d", "\\udc4c">>,
    <<"\\ud80d", "\\udc4d">>, <<"\\ud80d", "\\udc4e">>, <<"\\ud80d", "\\udc4f">>,
    <<"\\ud80d", "\\udc50">>, <<"\\ud80d", "\\udc51">>, <<"\\ud80d", "\\udc52">>,
    <<"\\ud80d", "\\udc53">>, <<"\\ud80d", "\\udc54">>, <<"\\ud80d", "\\udc55">>,
    <<"\\ud818", "\\udd1e">>, <<"\\ud818", "\\udd1f">>, <<"\\ud818", "\\udd20">>,
    <<"\\ud818", "\\udd21">>, <<"\\ud818", "\\udd22">>, <<"\\ud818", "\\udd23">>,
    <<"\\ud818", "\\udd24">>, <<"\\ud818", "\\udd25">>, <<"\\ud818", "\\udd26">>,
    <<"\\ud818", "\\udd27">>, <<"\\ud818", "\\udd28">>, <<"\\ud818", "\\udd29">>,
    <<"\\ud818", "\\udd2d">>, <<"\\ud818", "\\udd2e">>, <<"\\ud818", "\\udd2f">>,
    <<"\\ud81a", "\\udef0">>, <<"\\ud81a", "\\udef1">>, <<"\\ud81a", "\\udef2">>,
    <<"\\ud81a", "\\udef3">>, <<"\\ud81a", "\\udef4">>, <<"\\ud81a", "\\udf30">>,
    <<"\\ud81a", "\\udf31">>, <<"\\ud81a", "\\udf32">>, <<"\\ud81a", "\\udf33">>,
    <<"\\ud81a", "\\udf34">>, <<"\\ud81a", "\\udf35">>, <<"\\ud81a", "\\udf36">>,
    <<"\\ud81a", "\\udf40">>, <<"\\ud81a", "\\udf41">>, <<"\\ud81a", "\\udf42">>,
    <<"\\ud81a", "\\udf43">>, <<"\\ud81b", "\\udd40">>, <<"\\ud81b", "\\udd41">>,
    <<"\\ud81b", "\\udd42">>, <<"\\ud81b", "\\udd6b">>, <<"\\ud81b", "\\udd6c">>,
    <<"\\ud81b", "\\udf4f">>, <<"\\ud81b", "\\udf8f">>, <<"\\ud81b", "\\udf90">>,
    <<"\\ud81b", "\\udf91">>, <<"\\ud81b", "\\udf92">>, <<"\\ud81b", "\\udf93">>,
    <<"\\ud81b", "\\udf94">>, <<"\\ud81b", "\\udf95">>, <<"\\ud81b", "\\udf96">>,
    <<"\\ud81b", "\\udf97">>, <<"\\ud81b", "\\udf98">>, <<"\\ud81b", "\\udf99">>,
    <<"\\ud81b", "\\udf9a">>, <<"\\ud81b", "\\udf9b">>, <<"\\ud81b", "\\udf9c">>,
    <<"\\ud81b", "\\udf9d">>, <<"\\ud81b", "\\udf9e">>, <<"\\ud81b", "\\udf9f">>,
    <<"\\ud81b", "\\udfe0">>, <<"\\ud81b", "\\udfe1">>, <<"\\ud81b", "\\udfe3">>,
    <<"\\ud81b", "\\udfe4">>, <<"\\ud81b", "\\udff2">>, <<"\\ud81b", "\\udff3">>,
    <<"\\ud82b", "\\udff0">>, <<"\\ud82b", "\\udff1">>, <<"\\ud82b", "\\udff2">>,
    <<"\\ud82b", "\\udff3">>, <<"\\ud82b", "\\udff5">>, <<"\\ud82b", "\\udff6">>,
    <<"\\ud82b", "\\udff7">>, <<"\\ud82b", "\\udff8">>, <<"\\ud82b", "\\udff9">>,
    <<"\\ud82b", "\\udffa">>, <<"\\ud82b", "\\udffb">>, <<"\\ud82b", "\\udffd">>,
    <<"\\ud82b", "\\udffe">>, <<"\\ud82f", "\\udc9d">>, <<"\\ud82f", "\\udc9e">>,
    <<"\\ud82f", "\\udca0">>, <<"\\ud82f", "\\udca1">>, <<"\\ud82f", "\\udca2">>,
    <<"\\ud82f", "\\udca3">>, <<"\\ud833", "\\udf00">>, <<"\\ud833", "\\udf01">>,
    <<"\\ud833", "\\udf02">>, <<"\\ud833", "\\udf03">>, <<"\\ud833", "\\udf04">>,
    <<"\\ud833", "\\udf05">>, <<"\\ud833", "\\udf06">>, <<"\\ud833", "\\udf07">>,
    <<"\\ud833", "\\udf08">>, <<"\\ud833", "\\udf09">>, <<"\\ud833", "\\udf0a">>,
    <<"\\ud833", "\\udf0b">>, <<"\\ud833", "\\udf0c">>, <<"\\ud833", "\\udf0d">>,
    <<"\\ud833", "\\udf0e">>, <<"\\ud833", "\\udf0f">>, <<"\\ud833", "\\udf10">>,
    <<"\\ud833", "\\udf11">>, <<"\\ud833", "\\udf12">>, <<"\\ud833", "\\udf13">>,
    <<"\\ud833", "\\udf14">>, <<"\\ud833", "\\udf15">>, <<"\\ud833", "\\udf16">>,
    <<"\\ud833", "\\udf17">>, <<"\\ud833", "\\udf18">>, <<"\\ud833", "\\udf19">>,
    <<"\\ud833", "\\udf1a">>, <<"\\ud833", "\\udf1b">>, <<"\\ud833", "\\udf1c">>,
    <<"\\ud833", "\\udf1d">>, <<"\\ud833", "\\udf1e">>, <<"\\ud833", "\\udf1f">>,
    <<"\\ud833", "\\udf20">>, <<"\\ud833", "\\udf21">>, <<"\\ud833", "\\udf22">>,
    <<"\\ud833", "\\udf23">>, <<"\\ud833", "\\udf24">>, <<"\\ud833", "\\udf25">>,
    <<"\\ud833", "\\udf26">>, <<"\\ud833", "\\udf27">>, <<"\\ud833", "\\udf28">>,
    <<"\\ud833", "\\udf29">>, <<"\\ud833", "\\udf2a">>, <<"\\ud833", "\\udf2b">>,
    <<"\\ud833", "\\udf2c">>, <<"\\ud833", "\\udf2d">>, <<"\\ud833", "\\udf30">>,
    <<"\\ud833", "\\udf31">>, <<"\\ud833", "\\udf32">>, <<"\\ud833", "\\udf33">>,
    <<"\\ud833", "\\udf34">>, <<"\\ud833", "\\udf35">>, <<"\\ud833", "\\udf36">>,
    <<"\\ud833", "\\udf37">>, <<"\\ud833", "\\udf38">>, <<"\\ud833", "\\udf39">>,
    <<"\\ud833", "\\udf3a">>, <<"\\ud833", "\\udf3b">>, <<"\\ud833", "\\udf3c">>,
    <<"\\ud833", "\\udf3d">>, <<"\\ud833", "\\udf3e">>, <<"\\ud833", "\\udf3f">>,
    <<"\\ud833", "\\udf40">>, <<"\\ud833", "\\udf41">>, <<"\\ud833", "\\udf42">>,
    <<"\\ud833", "\\udf43">>, <<"\\ud833", "\\udf44">>, <<"\\ud833", "\\udf45">>,
    <<"\\ud833", "\\udf46">>, <<"\\ud834", "\\udd67">>, <<"\\ud834", "\\udd68">>,
    <<"\\ud834", "\\udd69">>, <<"\\ud834", "\\udd73">>, <<"\\ud834", "\\udd74">>,
    <<"\\ud834", "\\udd75">>, <<"\\ud834", "\\udd76">>, <<"\\ud834", "\\udd77">>,
    <<"\\ud834", "\\udd78">>, <<"\\ud834", "\\udd79">>, <<"\\ud834", "\\udd7a">>,
    <<"\\ud834", "\\udd7b">>, <<"\\ud834", "\\udd7c">>, <<"\\ud834", "\\udd7d">>,
    <<"\\ud834", "\\udd7e">>, <<"\\ud834", "\\udd7f">>, <<"\\ud834", "\\udd80">>,
    <<"\\ud834", "\\udd81">>, <<"\\ud834", "\\udd82">>, <<"\\ud834", "\\udd85">>,
    <<"\\ud834", "\\udd86">>, <<"\\ud834", "\\udd87">>, <<"\\ud834", "\\udd88">>,
    <<"\\ud834", "\\udd89">>, <<"\\ud834", "\\udd8a">>, <<"\\ud834", "\\udd8b">>,
    <<"\\ud834", "\\uddaa">>, <<"\\ud834", "\\uddab">>, <<"\\ud834", "\\uddac">>,
    <<"\\ud834", "\\uddad">>, <<"\\ud834", "\\ude42">>, <<"\\ud834", "\\ude43">>,
    <<"\\ud834", "\\ude44">>, <<"\\ud836", "\\ude00">>, <<"\\ud836", "\\ude01">>,
    <<"\\ud836", "\\ude02">>, <<"\\ud836", "\\ude03">>, <<"\\ud836", "\\ude04">>,
    <<"\\ud836", "\\ude05">>, <<"\\ud836", "\\ude06">>, <<"\\ud836", "\\ude07">>,
    <<"\\ud836", "\\ude08">>, <<"\\ud836", "\\ude09">>, <<"\\ud836", "\\ude0a">>,
    <<"\\ud836", "\\ude0b">>, <<"\\ud836", "\\ude0c">>, <<"\\ud836", "\\ude0d">>,
    <<"\\ud836", "\\ude0e">>, <<"\\ud836", "\\ude0f">>, <<"\\ud836", "\\ude10">>,
    <<"\\ud836", "\\ude11">>, <<"\\ud836", "\\ude12">>, <<"\\ud836", "\\ude13">>,
    <<"\\ud836", "\\ude14">>, <<"\\ud836", "\\ude15">>, <<"\\ud836", "\\ude16">>,
    <<"\\ud836", "\\ude17">>, <<"\\ud836", "\\ude18">>, <<"\\ud836", "\\ude19">>,
    <<"\\ud836", "\\ude1a">>, <<"\\ud836", "\\ude1b">>, <<"\\ud836", "\\ude1c">>,
    <<"\\ud836", "\\ude1d">>, <<"\\ud836", "\\ude1e">>, <<"\\ud836", "\\ude1f">>,
    <<"\\ud836", "\\ude20">>, <<"\\ud836", "\\ude21">>, <<"\\ud836", "\\ude22">>,
    <<"\\ud836", "\\ude23">>, <<"\\ud836", "\\ude24">>, <<"\\ud836", "\\ude25">>,
    <<"\\ud836", "\\ude26">>, <<"\\ud836", "\\ude27">>, <<"\\ud836", "\\ude28">>,
    <<"\\ud836", "\\ude29">>, <<"\\ud836", "\\ude2a">>, <<"\\ud836", "\\ude2b">>,
    <<"\\ud836", "\\ude2c">>, <<"\\ud836", "\\ude2d">>, <<"\\ud836", "\\ude2e">>,
    <<"\\ud836", "\\ude2f">>, <<"\\ud836", "\\ude30">>, <<"\\ud836", "\\ude31">>,
    <<"\\ud836", "\\ude32">>, <<"\\ud836", "\\ude33">>, <<"\\ud836", "\\ude34">>,
    <<"\\ud836", "\\ude35">>, <<"\\ud836", "\\ude36">>, <<"\\ud836", "\\ude3b">>,
    <<"\\ud836", "\\ude3c">>, <<"\\ud836", "\\ude3d">>, <<"\\ud836", "\\ude3e">>,
    <<"\\ud836", "\\ude3f">>, <<"\\ud836", "\\ude40">>, <<"\\ud836", "\\ude41">>,
    <<"\\ud836", "\\ude42">>, <<"\\ud836", "\\ude43">>, <<"\\ud836", "\\ude44">>,
    <<"\\ud836", "\\ude45">>, <<"\\ud836", "\\ude46">>, <<"\\ud836", "\\ude47">>,
    <<"\\ud836", "\\ude48">>, <<"\\ud836", "\\ude49">>, <<"\\ud836", "\\ude4a">>,
    <<"\\ud836", "\\ude4b">>, <<"\\ud836", "\\ude4c">>, <<"\\ud836", "\\ude4d">>,
    <<"\\ud836", "\\ude4e">>, <<"\\ud836", "\\ude4f">>, <<"\\ud836", "\\ude50">>,
    <<"\\ud836", "\\ude51">>, <<"\\ud836", "\\ude52">>, <<"\\ud836", "\\ude53">>,
    <<"\\ud836", "\\ude54">>, <<"\\ud836", "\\ude55">>, <<"\\ud836", "\\ude56">>,
    <<"\\ud836", "\\ude57">>, <<"\\ud836", "\\ude58">>, <<"\\ud836", "\\ude59">>,
    <<"\\ud836", "\\ude5a">>, <<"\\ud836", "\\ude5b">>, <<"\\ud836", "\\ude5c">>,
    <<"\\ud836", "\\ude5d">>, <<"\\ud836", "\\ude5e">>, <<"\\ud836", "\\ude5f">>,
    <<"\\ud836", "\\ude60">>, <<"\\ud836", "\\ude61">>, <<"\\ud836", "\\ude62">>,
    <<"\\ud836", "\\ude63">>, <<"\\ud836", "\\ude64">>, <<"\\ud836", "\\ude65">>,
    <<"\\ud836", "\\ude66">>, <<"\\ud836", "\\ude67">>, <<"\\ud836", "\\ude68">>,
    <<"\\ud836", "\\ude69">>, <<"\\ud836", "\\ude6a">>, <<"\\ud836", "\\ude6b">>,
    <<"\\ud836", "\\ude6c">>, <<"\\ud836", "\\ude75">>, <<"\\ud836", "\\ude84">>,
    <<"\\ud836", "\\ude9b">>, <<"\\ud836", "\\ude9c">>, <<"\\ud836", "\\ude9d">>,
    <<"\\ud836", "\\ude9e">>, <<"\\ud836", "\\ude9f">>, <<"\\ud836", "\\udea1">>,
    <<"\\ud836", "\\udea2">>, <<"\\ud836", "\\udea3">>, <<"\\ud836", "\\udea4">>,
    <<"\\ud836", "\\udea5">>, <<"\\ud836", "\\udea6">>, <<"\\ud836", "\\udea7">>,
    <<"\\ud836", "\\udea8">>, <<"\\ud836", "\\udea9">>, <<"\\ud836", "\\udeaa">>,
    <<"\\ud836", "\\udeab">>, <<"\\ud836", "\\udeac">>, <<"\\ud836", "\\udead">>,
    <<"\\ud836", "\\udeae">>, <<"\\ud836", "\\udeaf">>, <<"\\ud838", "\\udc00">>,
    <<"\\ud838", "\\udc01">>, <<"\\ud838", "\\udc02">>, <<"\\ud838", "\\udc03">>,
    <<"\\ud838", "\\udc04">>, <<"\\ud838", "\\udc05">>, <<"\\ud838", "\\udc06">>,
    <<"\\ud838", "\\udc08">>, <<"\\ud838", "\\udc09">>, <<"\\ud838", "\\udc0a">>,
    <<"\\ud838", "\\udc0b">>, <<"\\ud838", "\\udc0c">>, <<"\\ud838", "\\udc0d">>,
    <<"\\ud838", "\\udc0e">>, <<"\\ud838", "\\udc0f">>, <<"\\ud838", "\\udc10">>,
    <<"\\ud838", "\\udc11">>, <<"\\ud838", "\\udc12">>, <<"\\ud838", "\\udc13">>,
    <<"\\ud838", "\\udc14">>, <<"\\ud838", "\\udc15">>, <<"\\ud838", "\\udc16">>,
    <<"\\ud838", "\\udc17">>, <<"\\ud838", "\\udc18">>, <<"\\ud838", "\\udc1b">>,
    <<"\\ud838", "\\udc1c">>, <<"\\ud838", "\\udc1d">>, <<"\\ud838", "\\udc1e">>,
    <<"\\ud838", "\\udc1f">>, <<"\\ud838", "\\udc20">>, <<"\\ud838", "\\udc21">>,
    <<"\\ud838", "\\udc23">>, <<"\\ud838", "\\udc24">>, <<"\\ud838", "\\udc26">>,
    <<"\\ud838", "\\udc27">>, <<"\\ud838", "\\udc28">>, <<"\\ud838", "\\udc29">>,
    <<"\\ud838", "\\udc2a">>, <<"\\ud838", "\\udc30">>, <<"\\ud838", "\\udc31">>,
    <<"\\ud838", "\\udc32">>, <<"\\ud838", "\\udc33">>, <<"\\ud838", "\\udc34">>,
    <<"\\ud838", "\\udc35">>, <<"\\ud838", "\\udc36">>, <<"\\ud838", "\\udc37">>,
    <<"\\ud838", "\\udc38">>, <<"\\ud838", "\\udc39">>, <<"\\ud838", "\\udc3a">>,
    <<"\\ud838", "\\udc3b">>, <<"\\ud838", "\\udc3c">>, <<"\\ud838", "\\udc3d">>,
    <<"\\ud838", "\\udc3e">>, <<"\\ud838", "\\udc3f">>, <<"\\ud838", "\\udc40">>,
    <<"\\ud838", "\\udc41">>, <<"\\ud838", "\\udc42">>, <<"\\ud838", "\\udc43">>,
    <<"\\ud838", "\\udc44">>, <<"\\ud838", "\\udc45">>, <<"\\ud838", "\\udc46">>,
    <<"\\ud838", "\\udc47">>, <<"\\ud838", "\\udc48">>, <<"\\ud838", "\\udc49">>,
    <<"\\ud838", "\\udc4a">>, <<"\\ud838", "\\udc4b">>, <<"\\ud838", "\\udc4c">>,
    <<"\\ud838", "\\udc4d">>, <<"\\ud838", "\\udc4e">>, <<"\\ud838", "\\udc4f">>,
    <<"\\ud838", "\\udc50">>, <<"\\ud838", "\\udc51">>, <<"\\ud838", "\\udc52">>,
    <<"\\ud838", "\\udc53">>, <<"\\ud838", "\\udc54">>, <<"\\ud838", "\\udc55">>,
    <<"\\ud838", "\\udc56">>, <<"\\ud838", "\\udc57">>, <<"\\ud838", "\\udc58">>,
    <<"\\ud838", "\\udc59">>, <<"\\ud838", "\\udc5a">>, <<"\\ud838", "\\udc5b">>,
    <<"\\ud838", "\\udc5c">>, <<"\\ud838", "\\udc5d">>, <<"\\ud838", "\\udc5e">>,
    <<"\\ud838", "\\udc5f">>, <<"\\ud838", "\\udc60">>, <<"\\ud838", "\\udc61">>,
    <<"\\ud838", "\\udc62">>, <<"\\ud838", "\\udc63">>, <<"\\ud838", "\\udc64">>,
    <<"\\ud838", "\\udc65">>, <<"\\ud838", "\\udc66">>, <<"\\ud838", "\\udc67">>,
    <<"\\ud838", "\\udc68">>, <<"\\ud838", "\\udc69">>, <<"\\ud838", "\\udc6a">>,
    <<"\\ud838", "\\udc6b">>, <<"\\ud838", "\\udc6c">>, <<"\\ud838", "\\udc6d">>,
    <<"\\ud838", "\\udc8f">>, <<"\\ud838", "\\udd30">>, <<"\\ud838", "\\udd31">>,
    <<"\\ud838", "\\udd32">>, <<"\\ud838", "\\udd33">>, <<"\\ud838", "\\udd34">>,
    <<"\\ud838", "\\udd35">>, <<"\\ud838", "\\udd36">>, <<"\\ud838", "\\udd37">>,
    <<"\\ud838", "\\udd38">>, <<"\\ud838", "\\udd39">>, <<"\\ud838", "\\udd3a">>,
    <<"\\ud838", "\\udd3b">>, <<"\\ud838", "\\udd3c">>, <<"\\ud838", "\\udd3d">>,
    <<"\\ud838", "\\udeae">>, <<"\\ud838", "\\udeec">>, <<"\\ud838", "\\udeed">>,
    <<"\\ud838", "\\udeee">>, <<"\\ud838", "\\udeef">>, <<"\\ud839", "\\udceb">>,
    <<"\\ud839", "\\udcec">>, <<"\\ud839", "\\udced">>, <<"\\ud839", "\\udcee">>,
    <<"\\ud839", "\\udcef">>, <<"\\ud839", "\\uddee">>, <<"\\ud839", "\\uddef">>,
    <<"\\ud839", "\\udee3">>, <<"\\ud839", "\\udee6">>, <<"\\ud839", "\\udeee">>,
    <<"\\ud839", "\\udeef">>, <<"\\ud839", "\\udef5">>, <<"\\ud839", "\\udeff">>,
    <<"\\ud83a", "\\udcd0">>, <<"\\ud83a", "\\udcd1">>, <<"\\ud83a", "\\udcd2">>,
    <<"\\ud83a", "\\udcd3">>, <<"\\ud83a", "\\udcd4">>, <<"\\ud83a", "\\udcd5">>,
    <<"\\ud83a", "\\udcd6">>, <<"\\ud83a", "\\udd44">>, <<"\\ud83a", "\\udd45">>,
    <<"\\ud83a", "\\udd46">>, <<"\\ud83a", "\\udd47">>, <<"\\ud83a", "\\udd48">>,
    <<"\\ud83a", "\\udd49">>, <<"\\ud83a", "\\udd4a">>, <<"\\ud83a", "\\udd4b">>,
    <<"\\ud83c", "\\udffb">>, <<"\\ud83c", "\\udffc">>, <<"\\ud83c", "\\udffd">>,
    <<"\\ud83c", "\\udffe">>, <<"\\ud83c", "\\udfff">>, <<"\\udb40", "\\udc01">>,
    <<"\\udb40", "\\udc20">>, <<"\\udb40", "\\udc21">>, <<"\\udb40", "\\udc22">>,
    <<"\\udb40", "\\udc23">>, <<"\\udb40", "\\udc24">>, <<"\\udb40", "\\udc25">>,
    <<"\\udb40", "\\udc26">>, <<"\\udb40", "\\udc27">>, <<"\\udb40", "\\udc28">>,
    <<"\\udb40", "\\udc29">>, <<"\\udb40", "\\udc2a">>, <<"\\udb40", "\\udc2b">>,
    <<"\\udb40", "\\udc2c">>, <<"\\udb40", "\\udc2d">>, <<"\\udb40", "\\udc2e">>,
    <<"\\udb40", "\\udc2f">>, <<"\\udb40", "\\udc30">>, <<"\\udb40", "\\udc31">>,
    <<"\\udb40", "\\udc32">>, <<"\\udb40", "\\udc33">>, <<"\\udb40", "\\udc34">>,
    <<"\\udb40", "\\udc35">>, <<"\\udb40", "\\udc36">>, <<"\\udb40", "\\udc37">>,
    <<"\\udb40", "\\udc38">>, <<"\\udb40", "\\udc39">>, <<"\\udb40", "\\udc3a">>,
    <<"\\udb40", "\\udc3b">>, <<"\\udb40", "\\udc3c">>, <<"\\udb40", "\\udc3d">>,
    <<"\\udb40", "\\udc3e">>, <<"\\udb40", "\\udc3f">>, <<"\\udb40", "\\udc40">>,
    <<"\\udb40", "\\udc41">>, <<"\\udb40", "\\udc42">>, <<"\\udb40", "\\udc43">>,
    <<"\\udb40", "\\udc44">>, <<"\\udb40", "\\udc45">>, <<"\\udb40", "\\udc46">>,
    <<"\\udb40", "\\udc47">>, <<"\\udb40", "\\udc48">>, <<"\\udb40", "\\udc49">>,
    <<"\\udb40", "\\udc4a">>, <<"\\udb40", "\\udc4b">>, <<"\\udb40", "\\udc4c">>,
    <<"\\udb40", "\\udc4d">>, <<"\\udb40", "\\udc4e">>, <<"\\udb40", "\\udc4f">>,
    <<"\\udb40", "\\udc50">>, <<"\\udb40", "\\udc51">>, <<"\\udb40", "\\udc52">>,
    <<"\\udb40", "\\udc53">>, <<"\\udb40", "\\udc54">>, <<"\\udb40", "\\udc55">>,
    <<"\\udb40", "\\udc56">>, <<"\\udb40", "\\udc57">>, <<"\\udb40", "\\udc58">>,
    <<"\\udb40", "\\udc59">>, <<"\\udb40", "\\udc5a">>, <<"\\udb40", "\\udc5b">>,
    <<"\\udb40", "\\udc5c">>, <<"\\udb40", "\\udc5d">>, <<"\\udb40", "\\udc5e">>,
    <<"\\udb40", "\\udc5f">>, <<"\\udb40", "\\udc60">>, <<"\\udb40", "\\udc61">>,
    <<"\\udb40", "\\udc62">>, <<"\\udb40", "\\udc63">>, <<"\\udb40", "\\udc64">>,
    <<"\\udb40", "\\udc65">>, <<"\\udb40", "\\udc66">>, <<"\\udb40", "\\udc67">>,
    <<"\\udb40", "\\udc68">>, <<"\\udb40", "\\udc69">>, <<"\\udb40", "\\udc6a">>,
    <<"\\udb40", "\\udc6b">>, <<"\\udb40", "\\udc6c">>, <<"\\udb40", "\\udc6d">>,
    <<"\\udb40", "\\udc6e">>, <<"\\udb40", "\\udc6f">>, <<"\\udb40", "\\udc70">>,
    <<"\\udb40", "\\udc71">>, <<"\\udb40", "\\udc72">>, <<"\\udb40", "\\udc73">>,
    <<"\\udb40", "\\udc74">>, <<"\\udb40", "\\udc75">>, <<"\\udb40", "\\udc76">>,
    <<"\\udb40", "\\udc77">>, <<"\\udb40", "\\udc78">>, <<"\\udb40", "\\udc79">>,
    <<"\\udb40", "\\udc7a">>, <<"\\udb40", "\\udc7b">>, <<"\\udb40", "\\udc7c">>,
    <<"\\udb40", "\\udc7d">>, <<"\\udb40", "\\udc7e">>, <<"\\udb40", "\\udc7f">>,
    <<"\\udb40", "\\udd00">>, <<"\\udb40", "\\udd01">>, <<"\\udb40", "\\udd02">>,
    <<"\\udb40", "\\udd03">>, <<"\\udb40", "\\udd04">>, <<"\\udb40", "\\udd05">>,
    <<"\\udb40", "\\udd06">>, <<"\\udb40", "\\udd07">>, <<"\\udb40", "\\udd08">>,
    <<"\\udb40", "\\udd09">>, <<"\\udb40", "\\udd0a">>, <<"\\udb40", "\\udd0b">>,
    <<"\\udb40", "\\udd0c">>, <<"\\udb40", "\\udd0d">>, <<"\\udb40", "\\udd0e">>,
    <<"\\udb40", "\\udd0f">>, <<"\\udb40", "\\udd10">>, <<"\\udb40", "\\udd11">>,
    <<"\\udb40", "\\udd12">>, <<"\\udb40", "\\udd13">>, <<"\\udb40", "\\udd14">>,
    <<"\\udb40", "\\udd15">>, <<"\\udb40", "\\udd16">>, <<"\\udb40", "\\udd17">>,
    <<"\\udb40", "\\udd18">>, <<"\\udb40", "\\udd19">>, <<"\\udb40", "\\udd1a">>,
    <<"\\udb40", "\\udd1b">>, <<"\\udb40", "\\udd1c">>, <<"\\udb40", "\\udd1d">>,
    <<"\\udb40", "\\udd1e">>, <<"\\udb40", "\\udd1f">>, <<"\\udb40", "\\udd20">>,
    <<"\\udb40", "\\udd21">>, <<"\\udb40", "\\udd22">>, <<"\\udb40", "\\udd23">>,
    <<"\\udb40", "\\udd24">>, <<"\\udb40", "\\udd25">>, <<"\\udb40", "\\udd26">>,
    <<"\\udb40", "\\udd27">>, <<"\\udb40", "\\udd28">>, <<"\\udb40", "\\udd29">>,
    <<"\\udb40", "\\udd2a">>, <<"\\udb40", "\\udd2b">>, <<"\\udb40", "\\udd2c">>,
    <<"\\udb40", "\\udd2d">>, <<"\\udb40", "\\udd2e">>, <<"\\udb40", "\\udd2f">>,
    <<"\\udb40", "\\udd30">>, <<"\\udb40", "\\udd31">>, <<"\\udb40", "\\udd32">>,
    <<"\\udb40", "\\udd33">>, <<"\\udb40", "\\udd34">>, <<"\\udb40", "\\udd35">>,
    <<"\\udb40", "\\udd36">>, <<"\\udb40", "\\udd37">>, <<"\\udb40", "\\udd38">>,
    <<"\\udb40", "\\udd39">>, <<"\\udb40", "\\udd3a">>, <<"\\udb40", "\\udd3b">>,
    <<"\\udb40", "\\udd3c">>, <<"\\udb40", "\\udd3d">>, <<"\\udb40", "\\udd3e">>,
    <<"\\udb40", "\\udd3f">>, <<"\\udb40", "\\udd40">>, <<"\\udb40", "\\udd41">>,
    <<"\\udb40", "\\udd42">>, <<"\\udb40", "\\udd43">>, <<"\\udb40", "\\udd44">>,
    <<"\\udb40", "\\udd45">>, <<"\\udb40", "\\udd46">>, <<"\\udb40", "\\udd47">>,
    <<"\\udb40", "\\udd48">>, <<"\\udb40", "\\udd49">>, <<"\\udb40", "\\udd4a">>,
    <<"\\udb40", "\\udd4b">>, <<"\\udb40", "\\udd4c">>, <<"\\udb40", "\\udd4d">>,
    <<"\\udb40", "\\udd4e">>, <<"\\udb40", "\\udd4f">>, <<"\\udb40", "\\udd50">>,
    <<"\\udb40", "\\udd51">>, <<"\\udb40", "\\udd52">>, <<"\\udb40", "\\udd53">>,
    <<"\\udb40", "\\udd54">>, <<"\\udb40", "\\udd55">>, <<"\\udb40", "\\udd56">>,
    <<"\\udb40", "\\udd57">>, <<"\\udb40", "\\udd58">>, <<"\\udb40", "\\udd59">>,
    <<"\\udb40", "\\udd5a">>, <<"\\udb40", "\\udd5b">>, <<"\\udb40", "\\udd5c">>,
    <<"\\udb40", "\\udd5d">>, <<"\\udb40", "\\udd5e">>, <<"\\udb40", "\\udd5f">>,
    <<"\\udb40", "\\udd60">>, <<"\\udb40", "\\udd61">>, <<"\\udb40", "\\udd62">>,
    <<"\\udb40", "\\udd63">>, <<"\\udb40", "\\udd64">>, <<"\\udb40", "\\udd65">>,
    <<"\\udb40", "\\udd66">>, <<"\\udb40", "\\udd67">>, <<"\\udb40", "\\udd68">>,
    <<"\\udb40", "\\udd69">>, <<"\\udb40", "\\udd6a">>, <<"\\udb40", "\\udd6b">>,
    <<"\\udb40", "\\udd6c">>, <<"\\udb40", "\\udd6d">>, <<"\\udb40", "\\udd6e">>,
    <<"\\udb40", "\\udd6f">>, <<"\\udb40", "\\udd70">>, <<"\\udb40", "\\udd71">>,
    <<"\\udb40", "\\udd72">>, <<"\\udb40", "\\udd73">>, <<"\\udb40", "\\udd74">>,
    <<"\\udb40", "\\udd75">>, <<"\\udb40", "\\udd76">>, <<"\\udb40", "\\udd77">>,
    <<"\\udb40", "\\udd78">>, <<"\\udb40", "\\udd79">>, <<"\\udb40", "\\udd7a">>,
    <<"\\udb40", "\\udd7b">>, <<"\\udb40", "\\udd7c">>, <<"\\udb40", "\\udd7d">>,
    <<"\\udb40", "\\udd7e">>, <<"\\udb40", "\\udd7f">>, <<"\\udb40", "\\udd80">>,
    <<"\\udb40", "\\udd81">>, <<"\\udb40", "\\udd82">>, <<"\\udb40", "\\udd83">>,
    <<"\\udb40", "\\udd84">>, <<"\\udb40", "\\udd85">>, <<"\\udb40", "\\udd86">>,
    <<"\\udb40", "\\udd87">>, <<"\\udb40", "\\udd88">>, <<"\\udb40", "\\udd89">>,
    <<"\\udb40", "\\udd8a">>, <<"\\udb40", "\\udd8b">>, <<"\\udb40", "\\udd8c">>,
    <<"\\udb40", "\\udd8d">>, <<"\\udb40", "\\udd8e">>, <<"\\udb40", "\\udd8f">>,
    <<"\\udb40", "\\udd90">>, <<"\\udb40", "\\udd91">>, <<"\\udb40", "\\udd92">>,
    <<"\\udb40", "\\udd93">>, <<"\\udb40", "\\udd94">>, <<"\\udb40", "\\udd95">>,
    <<"\\udb40", "\\udd96">>, <<"\\udb40", "\\udd97">>, <<"\\udb40", "\\udd98">>,
    <<"\\udb40", "\\udd99">>, <<"\\udb40", "\\udd9a">>, <<"\\udb40", "\\udd9b">>,
    <<"\\udb40", "\\udd9c">>, <<"\\udb40", "\\udd9d">>, <<"\\udb40", "\\udd9e">>,
    <<"\\udb40", "\\udd9f">>, <<"\\udb40", "\\udda0">>, <<"\\udb40", "\\udda1">>,
    <<"\\udb40", "\\udda2">>, <<"\\udb40", "\\udda3">>, <<"\\udb40", "\\udda4">>,
    <<"\\udb40", "\\udda5">>, <<"\\udb40", "\\udda6">>, <<"\\udb40", "\\udda7">>,
    <<"\\udb40", "\\udda8">>, <<"\\udb40", "\\udda9">>, <<"\\udb40", "\\uddaa">>,
    <<"\\udb40", "\\uddab">>, <<"\\udb40", "\\uddac">>, <<"\\udb40", "\\uddad">>,
    <<"\\udb40", "\\uddae">>, <<"\\udb40", "\\uddaf">>, <<"\\udb40", "\\uddb0">>,
    <<"\\udb40", "\\uddb1">>, <<"\\udb40", "\\uddb2">>, <<"\\udb40", "\\uddb3">>,
    <<"\\udb40", "\\uddb4">>, <<"\\udb40", "\\uddb5">>, <<"\\udb40", "\\uddb6">>,
    <<"\\udb40", "\\uddb7">>, <<"\\udb40", "\\uddb8">>, <<"\\udb40", "\\uddb9">>,
    <<"\\udb40", "\\uddba">>, <<"\\udb40", "\\uddbb">>, <<"\\udb40", "\\uddbc">>,
    <<"\\udb40", "\\uddbd">>, <<"\\udb40", "\\uddbe">>, <<"\\udb40", "\\uddbf">>,
    <<"\\udb40", "\\uddc0">>, <<"\\udb40", "\\uddc1">>, <<"\\udb40", "\\uddc2">>,
    <<"\\udb40", "\\uddc3">>, <<"\\udb40", "\\uddc4">>, <<"\\udb40", "\\uddc5">>,
    <<"\\udb40", "\\uddc6">>, <<"\\udb40", "\\uddc7">>, <<"\\udb40", "\\uddc8">>,
    <<"\\udb40", "\\uddc9">>, <<"\\udb40", "\\uddca">>, <<"\\udb40", "\\uddcb">>,
    <<"\\udb40", "\\uddcc">>, <<"\\udb40", "\\uddcd">>, <<"\\udb40", "\\uddce">>,
    <<"\\udb40", "\\uddcf">>, <<"\\udb40", "\\uddd0">>, <<"\\udb40", "\\uddd1">>,
    <<"\\udb40", "\\uddd2">>, <<"\\udb40", "\\uddd3">>, <<"\\udb40", "\\uddd4">>,
    <<"\\udb40", "\\uddd5">>, <<"\\udb40", "\\uddd6">>, <<"\\udb40", "\\uddd7">>,
    <<"\\udb40", "\\uddd8">>, <<"\\udb40", "\\uddd9">>, <<"\\udb40", "\\uddda">>,
    <<"\\udb40", "\\udddb">>, <<"\\udb40", "\\udddc">>, <<"\\udb40", "\\udddd">>,
    <<"\\udb40", "\\uddde">>, <<"\\udb40", "\\udddf">>, <<"\\udb40", "\\udde0">>,
    <<"\\udb40", "\\udde1">>, <<"\\udb40", "\\udde2">>, <<"\\udb40", "\\udde3">>,
    <<"\\udb40", "\\udde4">>, <<"\\udb40", "\\udde5">>, <<"\\udb40", "\\udde6">>,
    <<"\\udb40", "\\udde7">>, <<"\\udb40", "\\udde8">>, <<"\\udb40", "\\udde9">>,
    <<"\\udb40", "\\uddea">>, <<"\\udb40", "\\uddeb">>, <<"\\udb40", "\\uddec">>,
    <<"\\udb40", "\\udded">>, <<"\\udb40", "\\uddee">>, <<"\\udb40", "\\uddef">> }

\* What case conversion reads in the tables: the set of the code points of
\* UpperCase, the lower case of each, the cased letters (a code point is
\* tested for CaseIgnorable first), and the surrogate pairs that case
\* conversion tells from two lone code units.
caseTables(upper, lower, other, ignorable) ==
  LET letters == {upper[k] : k \in 1..Len(upper)}
      cased == letters \cup {lower[k] : k \in 1..Len(lower)} \cup other
  IN [UpperCaseLetters |-> letters,
      LowerCaseOf |-> [c \in letters |->
                        lower[CHOOSE k \in 1..Len(upper) : upper[k] = c]],
      Cased |-> cased,
      CaseIgnorable |-> ignorable,
      SurrogatePairs |-> {c \in cased \cup ignorable : Len(c) = 2}]

Unicode == caseTables(UpperCase, LowerCase, OtherCased, CaseIgnorable)

\* The code point that starts at str[i] (dir = 1) or ends there (dir = -1):
\* two code units when they are a surrogate pair.
codePointAt(u, str, i, dir) ==
  LET first == IF dir = 1 THEN i ELSE i - 1
      pair == <<str[first], str[first + 1]>>
  IN IF first >= 1 /\ first < Len(str) /\ pair \in u.SurrogatePairs
     THEN pair ELSE <<str[i]>>

\* Walking from str[i] in direction dir, over case-ignorable code points
\* only, a cased letter is met.
RECURSIVE isFollowedByCasedLetter(_, _, _, _)
isFollowedByCasedLetter(u, str, i, dir) ==
  IF i < 1 \/ i > Len(str) THEN FALSE
  ELSE LET c == codePointAt(u, str, i, dir)
       IN IF c \in u.CaseIgnorable
          THEN isFollowedByCasedLetter(u, str, i + dir * Len(c), dir)
          ELSE c \in u.Cased

\* U+03A3 (capital sigma) becomes the final sigma U+03C2 when a cased
\* letter comes before it and none behind it, and the small sigma U+03C3
\* otherwise.
lowerCaseSigma(u, str, i) ==
  IF isFollowedByCasedLetter(u, str, i - 1, -1)
     /\ ~isFollowedByCasedLetter(u, str, i + 1, 1)
  THEN <<"\\u03c2">> ELSE <<"\\u03c3">>

\* The lower case of the code point c that starts at str[i].  U+0130
\* (capital I with a dot above) becomes two code units, "i" and U+0307.
lowerCaseChar(u, str, i, c) ==
  IF c = <<"\\u0130">> THEN <<"i", "\\u0307">>
  ELSE IF c = <<"\\u03a3">> THEN lowerCaseSigma(u, str, i)
  ELSE IF c \in u.UpperCaseLetters THEN u.LowerCaseOf[c]
  ELSE c

\* the lower case of str from the code point c at str[i] on
RECURSIVE toLowerCaseFrom(_, _, _, _)
toLowerCaseFrom(u, str, i, c) ==
  IF i > Len(str) THEN <<>>
  ELSE lowerCaseChar(u, str, i, c)
         \o (IF i + Len(c) > Len(str) THEN <<>>
             ELSE toLowerCaseFrom(u, str, i + Len(c),
                                  codePointAt(u, str, i + Len(c), 1)))

\* String.prototype.toLowerCase
toLowerCase(str) ==
  IF str = <<>> THEN <<>>
  ELSE toLowerCaseFrom(Unicode, str, 1, codePointAt(Unicode, str, 1, 1))

\* a character matched by \s
\* (White space and line terminators of JavaScript: U+0009..U+000D, the blank,
\* U+00A0, U+1680, U+2000..U+200A, U+2028, U+2029, U+202F, U+205F, U+3000 and
\* U+FEFF.)
WhitespaceChars ==
  {" ", "\t", "\n", "\f", "\r",
   "\\u000b", "\\u00a0", "\\u1680", "\\u2000", "\\u2001", "\\u2002",
   "\\u2003", "\\u2004", "\\u2005", "\\u2006", "\\u2007", "\\u2008",
   "\\u2009", "\\u200a", "\\u2028", "\\u2029", "\\u202f", "\\u205f",
   "\\u3000", "\\ufeff"}

IsWhitespace(c) == c \in WhitespaceChars

\* str.split(/\s+/): the pieces between maximal runs of whitespace; a run at
\* either end leaves an empty piece there, and "" splits into [""].
RECURSIVE splitFrom(_, _, _, _, _)
splitFrom(str, i, piece, inRun, pieces) ==
  IF i > Len(str) THEN Append(pieces, piece)
  ELSE IF IsWhitespace(str[i])
       THEN IF inRun THEN splitFrom(str, i + 1, piece, TRUE, pieces)
            ELSE splitFrom(str, i + 1, <<>>, TRUE, Append(pieces, piece))
  ELSE splitFrom(str, i + 1, Append(piece, str[i]), FALSE, pieces)

split(str) == splitFrom(str, 1, <<>>, FALSE, <<>>)

\* new Set(array)
SetOf(array) == {array[i] : i \in 1..Len(array)}

\* A JavaScript number that is the quotient of two integers, kept exact.
Ratio(n, d) == [num |-> n, den |-> d]

\* a >= b and a = b for quotients with positive denominators
AtLeast(a, b) == a.num * b.den >= b.num * a.den
SameNumber(a, b) == a.num * b.den = b.num * a.den

\* ------------------------------------------- calculateJaccardSimilarity
\* intersection.size / union.size, and 0 for an empty union
intersectionOverUnion(set1, set2) ==
  LET intersection == {x \in set1 : x \in set2}
      union == set1 \cup set2
  IN IF Cardinality(union) = 0 THEN Ratio(0, 1)
     ELSE Ratio(Cardinality(intersection), Cardinality(union))

\* Variant that lower-cases only the first string.
calculateJaccardSimilarity_KeepsCaseOfSecond(s1, s2) ==
  intersectionOverUnion(SetOf(split(toLowerCase(s1))), SetOf(split(s2)))

calculateJaccardSimilarity(s1, s2) ==
  intersectionOverUnion(SetOf(split(toLowerCase(s1))),
                        SetOf(split(toLowerCase(s2))))

\* ------------------------------------------------- compressObservations
\* JSON.stringify(obs.result) for a payload { result: <number> }
JSONStringify(result) ==
  <<"{", "\"", "r", "e", "s", "u", "l", "t", "\"", ":">> \o result.result.value \o <<"}">>

\* typeof obs.result.result === 'string' ? obs.result.result : JSON.stringify(obs.result)
ObservationText(obs) ==
  IF obs.result.result.type = "string" THEN obs.result.result.value
  ELSE JSONStringify(obs.result)

\* `current` before the first observation (null); an event has count >= 1.
NullEvent ==
  [description |-> <<>>, startTime |-> 0, endTime |-> 0,
   durationSec |-> Ratio(0, 1), count |-> 0]

\* Variant that starts the count at 0.
NewEvent_ZeroCount(text, obs) ==
  [description |-> text, startTime |-> obs.ts, endTime |-> obs.ts,
   durationSec |-> Ratio(0, 1), count |-> 0]

\* { description: text, startTime: obs.ts, endTime: obs.ts, durationSec: 0, count: 1 }
NewEvent(text, obs) ==
  [description |-> text, startTime |-> obs.ts, endTime |-> obs.ts,
   durationSec |-> Ratio(0, 1), count |-> 1]

\* Variant with `>` for `>=`.
JoinsStreak_Strict(similarity, th) == ~AtLeast(th, similarity)

\* if (similarity >= threshold)
JoinsStreak(similarity, th) == AtLeast(similarity, th)

\* Variant that does not recompute durationSec.
ExtendEvent_StaleDuration(current, obs) ==
  [current EXCEPT !.endTime = obs.ts, !.count = current.count + 1]

\* Variant that does not count the joining observation.
ExtendEvent_NoCount(current, obs) ==
  [current EXCEPT !.endTime = obs.ts,
                  !.durationSec = Ratio(obs.ts - current.startTime, 1000)]

\* Variant that relabels the streak with the joining observation's text.
ExtendEvent_TakesLatestText(current, obs) ==
  [current EXCEPT !.description = ObservationText(obs),
                  !.endTime = obs.ts,
                  !.count = current.count + 1,
                  !.durationSec = Ratio(obs.ts - current.startTime, 1000)]

\* current.endTime = obs.ts; current.count += 1;
\* current.durationSec = (current.endTime - current.startTime) / 1000;
ExtendEvent(current, obs) ==
  [current EXCEPT !.endTime = obs.ts,
                  !.count = current.count + 1,
                  !.durationSec = Ratio(obs.ts - current.startTime, 1000)]

\* the loop `for (const obs of raw)` from the i-th observation on, and the
\* final `if (current) compressed.push(current)`
RECURSIVE compressFrom(_, _, _, _, _)
compressFrom(observations, th, i, out, current) ==
  IF i > Len(observations)
  THEN IF current # NullEvent THEN Append(out, current) ELSE out
  ELSE LET obs == observations[i]
           text == ObservationText(obs)
       IN IF current = NullEvent
          THEN compressFrom(observations, th, i + 1, out, NewEvent(text, obs))
          ELSE IF JoinsStreak(calculateJaccardSimilarity(current.description, text), th)
               THEN compressFrom(observations, th, i + 1, out, ExtendEvent(current, obs))
               ELSE compressFrom(observations, th, i + 1, Append(out, current), NewEvent(text, obs))

\* Variant without the final `if (current) compressed.push(current)`.
compressObservations_NoFinalPush(observations, th) ==
  IF Len(observations) = 0 THEN <<>>
  ELSE LET all == compressFrom(observations, th, 1, <<>>, NullEvent)
       IN SubSeq(all, 1, Len(all) - 1)

compressObservations(observations, th) ==
  IF Len(observations) = 0 THEN <<>>
  ELSE compressFrom(observations, th, 1, <<>>, NullEvent)

\* ---------------------------------------------------------- search ranker
\* String.prototype.trim
RECURSIVE trimStart(_)
trimStart(str) ==
  IF str # <<>> /\ IsWhitespace(Head(str)) THEN trimStart(Tail(str)) ELSE str

RECURSIVE trimEnd(_)
trimEnd(str) ==
  IF str # <<>> /\ IsWhitespace(str[Len(str)])
  THEN trimEnd(SubSeq(str, 1, Len(str) - 1))
  ELSE str

trim(str) == trimEnd(trimStart(str))

\* Array.prototype.join
RECURSIVE join(_, _)
join(array, separator) ==
  IF Len(array) = 0 THEN <<>>
  ELSE IF Len(array) = 1 THEN array[1]
  ELSE array[1] \o separator \o join(Tail(array), separator)

Digits == {"0", "1", "2", "3", "4", "5", "6", "7", "8", "9"}

\* the characters a-z
LowerCaseLetters ==
  {"a", "b", "c", "d", "e", "f", "g", "h", "i", "j", "k", "l", "m",
   "n", "o", "p", "q", "r", "s", "t", "u", "v", "w", "x", "y", "z"}

\* .replace(/[^a-z0-9\s]/g, " ")
replaceNonAlphanumeric(str) ==
  [i \in 1..Len(str) |->
     IF str[i] \in LowerCaseLetters \cup Digits \/ IsWhitespace(str[i])
     THEN str[i] ELSE " "]

tokenizeText(input) ==
  SelectSeq(split(replaceNonAlphanumeric(toLowerCase(input))),
            LAMBDA piece : piece # <<>>)

\* --------------------------------------------------------------- numbers
\* The numbers of the ranker are IEEE 754 doubles: every result of `/`, `*`,
\* `+` and Math.sqrt is rounded to 53 significant bits, ties to even.  A
\* number is sign * (hi * 2^28 + lo) * 2^exp with 2^24 <= hi < 2^25 and
\* 0 <= lo < 2^28, and 0 is the number with sign 0.  The counts of a text
\* keep every exponent far inside the range of a double.
Zero == [sign |-> 0, hi |-> 0, lo |-> 0, exp |-> 0]

\* The double nearest to (hi * 2^28 + lo + f) * 2^exp, where 2^52 <= hi *
\* 2^28 + lo < 2^53 and 0 <= f < 1: `guard` says that f >= 1/2, `sticky`
\* that f is neither 0 nor 1/2.
RoundToNearestEven(hi, lo, exp, guard, sticky) ==
  LET up == guard /\ (sticky \/ (lo % 2) = 1)
      l == IF up THEN lo + 1 ELSE lo
      h == hi + (l \div 2^28)
  IN IF h = 2^25 THEN [sign |-> 1, hi |-> 2^24, lo |-> 0, exp |-> exp + 1]
     ELSE [sign |-> 1, hi |-> h, lo |-> l % 2^28, exp |-> exp]

\* The double of an integer 0 <= n < 2^31 (a count, or a sum of squares of
\* counts), which is exact.
toNumber(n) ==
  IF n = 0 THEN Zero
  ELSE LET bits == CHOOSE b \in 1..31 : n \div 2^(b - 1) = 1
       IN IF bits <= 25
          THEN [sign |-> 1, hi |-> n * 2^(25 - bits), lo |-> 0, exp |-> bits - 53]
          ELSE [sign |-> 1, hi |-> n \div 2^(bits - 25),
                lo |-> (n % 2^(bits - 25)) * 2^(53 - bits), exp |-> bits - 53]

\* a > b
Greater(a, b) ==
  IF a.sign # b.sign THEN a.sign > b.sign
  ELSE IF a.sign = 0 THEN FALSE
  ELSE LET x == IF a.sign = 1 THEN a ELSE b
           y == IF a.sign = 1 THEN b ELSE a
       IN IF x.exp # y.exp THEN x.exp > y.exp
          ELSE IF x.hi # y.hi THEN x.hi > y.hi
          ELSE x.lo > y.lo

\* Math.sqrt(n) for an integer 0 < n < 2^31: the root is found one bit for
\* every two bits of n, with the remainder n - root * root.
RECURSIVE sqrtBits(_, _, _, _, _, _, _)
sqrtBits(n, pairs, k, rootHi, rootLo, remHi, remLo) ==
  IF k > 53
  THEN RoundToNearestEven(rootHi, rootLo, pairs - 53,
                          remHi > rootHi \/ (remHi = rootHi /\ remLo > rootLo),
                          remHi # 0 \/ remLo # 0)
  ELSE LET pair == IF k <= pairs THEN (n \div 4^(pairs - k)) % 4 ELSE 0
           r == 4 * remLo + pair
           rLo == r % 2^28
           rHi == 4 * remHi + (r \div 2^28)
           t == 4 * rootLo + 1
           tLo == t % 2^28
           tHi == 4 * rootHi + (t \div 2^28)
           fits == rHi > tHi \/ (rHi = tHi /\ rLo >= tLo)
           o == 2 * rootLo + (IF fits THEN 1 ELSE 0)
       IN sqrtBits(n, pairs, k + 1,
                   2 * rootHi + (o \div 2^28), o % 2^28,
                   IF fits THEN rHi - tHi - (IF rLo < tLo THEN 1 ELSE 0) ELSE rHi,
                   IF fits THEN (rLo - tLo + 2^28) % 2^28 ELSE rLo)

sqrt(n) ==
  IF n = 0 THEN Zero
  ELSE sqrtBits(n, CHOOSE p \in 1..16 : n \div 4^(p - 1) \in 1..3, 1, 0, 0, 0, 0)

\* a / b for a >= 0 and b > 0: the quotient of the two significands is
\* found bit by bit, with the remainder.
RECURSIVE divideBits(_, _, _, _, _, _, _)
divideBits(b, exp, k, qHi, qLo, remHi, remLo) ==
  LET r == 2 * remLo
      rLo == r % 2^28
      rHi == 2 * remHi + (r \div 2^28)
      fits == rHi > b.hi \/ (rHi = b.hi /\ rLo >= b.lo)
      o == 2 * qLo + (IF fits THEN 1 ELSE 0)
  IN IF k = 0
     THEN RoundToNearestEven(qHi, qLo, exp, fits, rHi # b.hi \/ rLo # b.lo)
     ELSE divideBits(b, exp, k - 1,
                     2 * qHi + (o \div 2^28), o % 2^28,
                     IF fits THEN rHi - b.hi - (IF rLo < b.lo THEN 1 ELSE 0) ELSE rHi,
                     IF fits THEN (rLo - b.lo + 2^28) % 2^28 ELSE rLo)

divide(a, b) ==
  IF a.sign = 0 THEN Zero
  ELSE IF a.hi > b.hi \/ (a.hi = b.hi /\ a.lo >= b.lo)
       THEN divideBits(b, a.exp - b.exp - 52, 52, 0, 1,
                       a.hi - b.hi - (IF a.lo < b.lo THEN 1 ELSE 0),
                       (a.lo - b.lo + 2^28) % 2^28)
       ELSE divideBits(b, a.exp - b.exp - 53, 53, 0, 0, a.hi, a.lo)

\* a * b for a, b >= 0: the product of the two significands in digits of
\* 14 bits.
multiply(a, b) ==
  IF a.sign = 0 \/ b.sign = 0 THEN Zero
  ELSE
    LET B == 2^14
        a0 == a.lo % B
        a1 == a.lo \div B
        a2 == a.hi % B
        a3 == a.hi \div B
        b0 == b.lo % B
        b1 == b.lo \div B
        b2 == b.hi % B
        b3 == b.hi \div B
        t0 == a0 * b0
        t1 == a0 * b1 + a1 * b0 + (t0 \div B)
        t2 == a0 * b2 + a1 * b1 + a2 * b0 + (t1 \div B)
        t3 == a0 * b3 + a1 * b2 + a2 * b1 + a3 * b0 + (t2 \div B)
        t4 == a1 * b3 + a2 * b2 + a3 * b1 + (t3 \div B)
        t5 == a2 * b3 + a3 * b2 + (t4 \div B)
        t6 == a3 * b3 + (t5 \div B)
        p3 == t3 % B
        p4 == t4 % B
        p5 == t5 % B
        p6 == t6 % B
        p7 == t6 \div B
        t == IF p7 >= 2^7 THEN 11 ELSE 10
    IN RoundToNearestEven(
         (p5 \div 2^t) + p6 * 2^(14 - t) + p7 * 2^(28 - t),
         (p3 \div 2^t) + p4 * 2^(14 - t) + (p5 % 2^t) * 2^(28 - t),
         a.exp + b.exp + 42 + t,
         ((p3 \div 2^(t - 1)) % 2) = 1,
         (p3 % 2^(t - 1)) # 0 \/ (t2 % B) # 0 \/ (t1 % B) # 0 \/ (t0 % B) # 0)

\* The significand hi * 2^28 + lo shifted right by n bits, with the bit
\* shifted out last and whether a bit shifted out before it was set.
RECURSIVE shiftRight(_, _, _, _, _)
shiftRight(hi, lo, n, guard, sticky) ==
  IF n = 0 \/ (hi = 0 /\ lo = 0 /\ ~guard)
  THEN [hi |-> hi, lo |-> lo, guard |-> guard, sticky |-> sticky]
  ELSE shiftRight(hi \div 2, (lo \div 2) + (hi % 2) * 2^27, n - 1,
                  (lo % 2) = 1, sticky \/ guard)

\* a + b for a, b >= 0
add(a, b) ==
  IF a.sign = 0 THEN b
  ELSE IF b.sign = 0 THEN a
  ELSE
    LET x == IF a.exp >= b.exp THEN a ELSE b
        y == IF a.exp >= b.exp THEN b ELSE a
        s == shiftRight(y.hi, y.lo, x.exp - y.exp, FALSE, FALSE)
        l == x.lo + s.lo
        h == x.hi + s.hi + (l \div 2^28)
        n == IF h >= 2^25 THEN shiftRight(h, l % 2^28, 1, s.guard, s.sticky)
             ELSE [hi |-> h, lo |-> l % 2^28, guard |-> s.guard, sticky |-> s.sticky]
    IN RoundToNearestEven(n.hi, n.lo, x.exp + (IF h >= 2^25 THEN 1 ELSE 0),
                          n.guard, n.sticky)

\* 1 and -1
One == toNumber(1)

MinusOne == [One EXCEPT !.sign = -1]

\* Math.max(0, Math.min(1, dot))
clampToUnit(dot) ==
  LET min == IF Greater(dot, One) THEN One ELSE dot
  IN IF Greater(Zero, min) THEN Zero ELSE min

\* Math.sqrt(n) and v / Math.sqrt(n) for the sums of squares and the counts
\* of short texts, worked out once; longer texts are worked out in place.
SquareRoots == [n \in 1..MaxNormSq |-> sqrt(n)]

Quotients ==
  [v \in 1..MaxCount |->
     [n \in 1..MaxNormSq |-> divide(toNumber(v), SquareRoots[n])]]

\* `for (const v of tf.values()) norm += v * v` from the i-th entry on; the
\* sum of squares of counts is a whole number, which a double holds exactly.
RECURSIVE sumOfSquares(_, _)
sumOfSquares(tf, i) ==
  IF i > Len(tf) THEN 0
  ELSE tf[i].value * tf[i].value + sumOfSquares(tf, i + 1)

\* A Map that is iterated is the sequence of its entries in insertion
\* order.  `for (const t of tokens) tf.set(t, (tf.get(t) || 0) + 1)`: a
\* token's entry is inserted at its first occurrence and holds its count.
termFrequencies(tokens) ==
  LET firsts == {i \in 1..Len(tokens) : \A j \in 1..(i - 1) : tokens[j] # tokens[i]}
  IN [k \in 1..Cardinality(firsts) |->
        LET i == CHOOSE f \in firsts : Cardinality({j \in firsts : j <= f}) = k
        IN [key |-> tokens[i],
            value |-> Cardinality({j \in 1..Len(tokens) : tokens[j] = tokens[i]})]]

\* v / norm, where norm is Math.sqrt(normSq)
quotient(v, normSq) ==
  IF normSq <= MaxNormSq /\ v <= MaxCount THEN Quotients[v][normSq]
  ELSE divide(toNumber(v), sqrt(normSq))

\* `norm = Math.sqrt(norm) || 1` makes the norm 1 when there is no token;
\* `for (const [k, v] of tf.entries()) out.set(k, v / norm)`
l2Normalize(tf) ==
  LET normSq == sumOfSquares(tf, 1)
  IN [k \in 1..Len(tf) |->
        [key |-> tf[k].key,
         value |-> IF normSq = 0 THEN divide(toNumber(tf[k].value), One)
                   ELSE quotient(tf[k].value, normSq)]]

textToTfVector(input) == l2Normalize(termFrequencies(tokenizeText(input)))

\* `for (const [k, v] of small.entries()) { const w = large.get(k);
\* if (w) dot += v * w; }` from the i-th entry on
RECURSIVE dotFrom(_, _, _, _)
dotFrom(small, large, i, dot) ==
  IF i > Len(small) THEN dot
  ELSE LET found == {j \in 1..Len(large) : large[j].key = small[i].key}
           w == IF found = {} THEN Zero ELSE large[CHOOSE j \in found : TRUE].value
       IN dotFrom(small, large, i + 1,
                  IF w.sign # 0 THEN add(dot, multiply(small[i].value, w)) ELSE dot)

cosineFromTf(a, b) ==
  LET small == IF Len(a) < Len(b) THEN a ELSE b
      large == IF Len(a) < Len(b) THEN b ELSE a
  IN clampToUnit(dotFrom(small, large, 1, Zero))

\* compressedLog.slice(0, 12)
LogPrefix == 12

\* A missing description or compressedLog is the empty one: both are
\* skipped by the truthiness tests.
sessionSearchText(s) ==
  LET log == SubSeq(s.compressedLog, 1,
                    IF Len(s.compressedLog) < LogPrefix
                    THEN Len(s.compressedLog) ELSE LogPrefix)
      parts ==
        <<s.title>>
        \o (IF s.description # <<>> THEN <<s.description>> ELSE <<>>)
        \o (IF Len(s.highlights) > 0
            THEN <<join(s.highlights, <<" ">>)>> ELSE <<>>)
        \o (IF Len(s.compressedLog) > 0
            THEN <<join([i \in 1..Len(log) |-> log[i].description], <<" ">>)>>
            ELSE <<>>)
  IN join(parts, <<" ", "\n">>)

\* new Map() is the function with no key
EmptyMap == [k \in {} |-> Zero]

\* m.set(key, value)
MapSet(m, key, value) ==
  [k \in DOMAIN m \cup {key} |-> IF k = key THEN value ELSE m[k]]

\* `for (const s of sessions) { ... m.set(s.id, cosineFromTf(qv, sv)) }`
\* from the i-th session on
RECURSIVE similarityFrom(_, _, _, _)
similarityFrom(qv, list, i, m) ==
  IF i > Len(list) THEN m
  ELSE LET sv == textToTfVector(sessionSearchText(list[i]))
       IN similarityFrom(qv, list, i + 1,
                         MapSet(m, list[i].id, cosineFromTf(qv, sv)))

\* Variant that tests the untrimmed query.
similarityByIdMemo_NoTrim(query, list) ==
  IF query = <<>> THEN EmptyMap
  ELSE similarityFrom(textToTfVector(trim(query)), list, 1, EmptyMap)

\* useMemo(() => { ... }, [workflowQuery, sessions])
similarityByIdMemo(query, list) ==
  LET q == trim(query)
  IN IF q = <<>> THEN EmptyMap
     ELSE similarityFrom(textToTfVector(q), list, 1, EmptyMap)

\* similarityById.get(id) ?? 0
scoreOrZero(m, id) == IF id \in DOMAIN m THEN m[id] ELSE Zero

\* Variant with `>=` for `>`.
BeatsBest_OrEquals(sc, best) == ~Greater(best, sc)

\* if (sc > best)
BeatsBest(sc, best) == Greater(sc, best)

\* the loop of topMatchId from the i-th session on
RECURSIVE topMatchFrom(_, _, _, _, _)
topMatchFrom(list, m, i, best, bestId) ==
  IF i > Len(list) THEN bestId
  ELSE LET sc == scoreOrZero(m, list[i].id)
       IN IF BeatsBest(sc, best)
          THEN topMatchFrom(list, m, i + 1, sc, list[i].id)
          ELSE topMatchFrom(list, m, i + 1, best, bestId)

NoMatch == <<"null">>

\* useMemo(() => { ... }, [workflowQuery, sessions, similarityById])
topMatchIdMemo(query, list, m) ==
  IF trim(query) = <<>> THEN NoMatch
  ELSE topMatchFrom(list, m, 1, MinusOne, NoMatch)

\* ----------------------------------------------------------------- Session
\* id: `s-${suffix}`
SessionId(suffix) == <<"s-", suffix>>

\* type Session; an absent description, rawObservations or compressedLog is
\* the empty one. Times of the seed sessions are minutes before the page
\* was loaded.
seedSessions ==
  << [id |-> SessionId("104"),
      title |-> <<"D", "e", "e", "p", " ", "w", "o", "r", "k", ":", " ", "s", "p", "r", "i", "n", "t", " ", "p", "l", "a", "n", "n", "i", "n", "g", " ", "n", "o", "t", "e", "s">>,
      description |-> <<>>,
      startedAt |-> -250, endedAt |-> -157,
      tags |-> <<"docs", "planning">>,
      highlights |-> << <<"S", "u", "m", "m", "a", "r", "i", "z", "e", "d", " ", "s", "t", "a", "k", "e", "h", "o", "l", "d", "e", "r", " ", "i", "n", "p", "u", "t", "s">>,
                        <<"A", "u", "t", "o", "-", "c", "a", "p", "t", "u", "r", "e", "d", " ", "e", "d", "i", "t", "s", " ", "i", "n", " ", "S", "p", "e", "c", "_", "v", "3", ".", "m", "d">>,
                        <<"G", "e", "n", "e", "r", "a", "t", "e", "d", " ", "t", "a", "s", "k", " ", "l", "i", "s", "t">> >>,
      rawObservations |-> <<>>, compressedLog |-> <<>>],
     [id |-> SessionId("103"),
      title |-> <<"C", "o", "d", "e", " ", "f", "o", "c", "u", "s", ":", " ", "v", "e", "c", "t", "o", "r", " ", "s", "e", "a", "r", "c", "h", " ", "P", "O", "C">>,
      description |-> <<>>,
      startedAt |-> -1560, endedAt |-> -1392,
      tags |-> <<"coding", "prototype">>,
      highlights |-> << <<"B", "e", "n", "c", "h", "m", "a", "r", "k", "e", "d", " ", "k", "N", "N", " ", "t", "o", "p", "-", "k", "=", "5", "0">>,
                        <<"F", "l", "a", "g", "g", "e", "d", " ", "m", "e", "m", "o", "r", "y", " ", "s", "p", "i", "k", "e", " ", "i", "n", " ", "w", "o", "r", "k", "e", "r">>,
                        <<"S", "a", "v", "e", "d", " ", "l", "o", "g", " ", "s", "n", "a", "p", "s", "h", "o", "t">> >>,
      rawObservations |-> <<>>, compressedLog |-> <<>>],
     [id |-> SessionId("102"),
      title |-> <<"D", "e", "s", "i", "g", "n", " ", "r", "e", "v", "i", "e", "w", " ", "p", "r", "e", "p">>,
      description |-> <<>>,
      startedAt |-> -2914, endedAt |-> -2762,
      tags |-> <<"design", "slides">>,
      highlights |-> << <<"D", "r", "a", "f", "t", "e", "d", " ", "o", "u", "t", "l", "i", "n", "e", " ", "i", "n", " ", "s", "l", "i", "d", "e", "s">>,
                        <<"P", "u", "l", "l", "e", "d", " ", "l", "a", "t", "e", "s", "t", " ", "m", "e", "t", "r", "i", "c", "s">>,
                        <<"G", "e", "n", "e", "r", "a", "t", "e", "d", " ", "t", "a", "l", "k", "i", "n", "g", " ", "p", "o", "i", "n", "t", "s">> >>,
      rawObservations |-> <<>>, compressedLog |-> <<>>] >>

\* --------------------------------------------------- generateSessionSummary
\* The character U+2022 (bullet).
Bullet == "\\u2022"

\* content.split("\n"): the pieces between line feeds, from position i on
RECURSIVE splitLinesFrom(_, _, _, _)
splitLinesFrom(str, i, piece, pieces) ==
  IF i > Len(str) THEN Append(pieces, piece)
  ELSE IF str[i] = "\n"
       THEN splitLinesFrom(str, i + 1, <<>>, Append(pieces, piece))
       ELSE splitLinesFrom(str, i + 1, Append(piece, str[i]), pieces)

splitLines(str) == splitLinesFrom(str, 1, <<>>, <<>>)

\* a character matched by [\*\-•\d\.]
IsMarker(c) == c \in {"*", "-", Bullet, "."} \cup Digits

RECURSIVE dropMarkers(_)
dropMarkers(str) ==
  IF str # <<>> /\ IsMarker(Head(str)) THEN dropMarkers(Tail(str)) ELSE str

\* line.replace(/^[\*\-•\d\.]+\s*/, ""): a run of at least one marker
\* character at the start of the line, and the whitespace behind it
stripMarker(line) ==
  IF line # <<>> /\ IsMarker(Head(line))
  THEN trimStart(dropMarkers(line))
  ELSE line

\* .filter((line) => line.length > 5)
MinHighlightLen == 5

\* .slice(0, 3)
MaxHighlights == 3

\* Variant with `>=` for `>` in the length filter.
LongEnough_OrEqual(line) == Len(line) >= MinHighlightLen

LongEnough(line) == Len(line) > MinHighlightLen

\* content.split("\n").map(...).filter(...).slice(0, 3)
parseHighlights(content) ==
  LET lines == splitLines(content)
      cleaned == [i \in 1..Len(lines) |-> trim(stripMarker(lines[i]))]
      kept == SelectSeq(cleaned, LongEnough)
  IN SubSeq(kept, 1, IF Len(kept) < MaxHighlights THEN Len(kept) ELSE MaxHighlights)

\* return ["Failed to generate AI summary", "Check console for details", "Raw data saved"]
FallbackHighlights ==
  << <<"F", "a", "i", "l", "e", "d", " ", "t", "o", " ", "g", "e", "n", "e", "r", "a", "t", "e", " ", "A", "I", " ", "s", "u", "m", "m", "a", "r", "y">>,
     <<"C", "h", "e", "c", "k", " ", "c", "o", "n", "s", "o", "l", "e", " ", "f", "o", "r", " ", "d", "e", "t", "a", "i", "l", "s">>,
     <<"R", "a", "w", " ", "d", "a", "t", "a", " ", "s", "a", "v", "e", "d">> >>

\* How the request of generateSessionSummary ends:
\*   the fetch rejects;
\*   the fetch resolves and res.json() rejects (the body is not JSON);
\*   the body is the JSON null, so `data.choices` throws;
\*   the body has no choices[0].message.content, or an empty one;
\*   the content is not a string, so `content.split` throws;
\*   the content is a string.
FetchRejected == [kind |-> "fetch rejected", content |-> <<>>]
JsonRejected == [kind |-> "json rejected", content |-> <<>>]
NullBody == [kind |-> "null body", content |-> <<>>]
NoContent == [kind |-> "no content", content |-> <<>>]
ContentNotAString == [kind |-> "content not a string", content |-> <<>>]
ContentIs(text) == [kind |-> "content", content |-> text]

\* The request ends in the catch block.
Caught(response) ==
  response.kind \in {"fetch rejected", "json rejected", "null body",
                     "content not a string"}

\* Variant without the try/catch: the failure leaves the function.
generateSessionSummary_NoCatch(compressedData, response) ==
  IF Caught(response) THEN [threw |-> TRUE, highlights |-> <<>>]
  ELSE [threw |-> FALSE, highlights |-> parseHighlights(response.content)]

\* generateSessionSummary once its request has ended with `response`; the
\* compressed log only goes into the prompt.
generateSessionSummary(compressedData, response) ==
  IF Caught(response) THEN [threw |-> FALSE, highlights |-> FallbackHighlights]
  ELSE [threw |-> FALSE, highlights |-> parseHighlights(response.content)]

\* ------------------------------------------------- getUserMedia redirect
\* Variant without the `if (patchedRef.current) return;` guard.
patchGetUserMediaToReturn_NoGuard(h, stream) ==
  [h EXCEPT !.originalGetUserMediaRef = h.getUserMedia,
            !.getUserMedia = Redirect(stream),
            !.patchedRef = TRUE]

patchGetUserMediaToReturn(h, stream) ==
  IF h.patchedRef THEN h
  ELSE [h EXCEPT !.originalGetUserMediaRef = h.getUserMedia,
                 !.getUserMedia = Redirect(stream),
                 !.patchedRef = TRUE]

restoreGetUserMedia(h) ==
  IF ~h.patchedRef THEN h
  ELSE [h EXCEPT !.getUserMedia = IF h.originalGetUserMediaRef # NoGUM
                                  THEN h.originalGetUserMediaRef
                                  ELSE h.getUserMedia,
                 !.originalGetUserMediaRef = NoGUM,
                 !.patchedRef = FALSE]

\* ------------------------------------------------------- vision client
\* RealtimeVision.stop(): the client is asked to stop.
VisionStop(h, v) == [h EXCEPT !.visions[v].stopAsked = TRUE]

\* The callbacks handed to createRealtimeVision are closures of the hook; they
\* do not look at the client's state, so they run whenever the client calls
\* them: while start() is pending, after stop() was asked, after a failure.
\* (The client of runConnectivityTest has callbacks of its own: cap "none".)
Delivering(v) ==
  /\ v \in 1..Len(visions)
  /\ visions[v].cap # "none"

\* Open connection: start() was called, has not failed, stop() not requested.
OpenVisions ==
  {v \in 1..Len(visions) : visions[v].st \in {"starting", "open"} /\ ~visions[v].stopAsked}

\* --------------------------------------------------------- startSession
\* Variant of the catch block that forgets restoreGetUserMedia().
startSessionCatch_NoRestore(h) ==
  [h EXCEPT !.status = "Error", !.ret = "false"]

\* catch (err) { restoreGetUserMedia(); setStatus("Error"); return false; }
startSessionCatch(h) ==
  [restoreGetUserMedia(h) EXCEPT !.status = "Error", !.ret = "false"]

\* getOvershootApiKey(): the stored key, or the key typed into the prompt
\* (keyTyped), which is then stored; "" when the prompt is dismissed.
getOvershootApiKey(h, keyTyped) ==
  IF h.apiKeyStored THEN [key |-> TRUE, stored |-> TRUE]
  ELSE IF keyTyped THEN [key |-> TRUE, stored |-> TRUE]
  ELSE [key |-> FALSE, stored |-> FALSE]

\* startSession from `patchGetUserMediaToReturn(stream)` to `await vision.start()`
startSessionConnect(h, stream, cap, by, keyTyped) ==
  LET p == patchGetUserMediaToReturn(h, stream)
      k == getOvershootApiKey(p, keyTyped)
      q == [p EXCEPT !.apiKeyStored = k.stored]
      id == Len(q.visions) + 1
  IN IF ~k.key THEN startSessionCatch(q)
     ELSE [q EXCEPT
             !.visions = Append(q.visions, [st |-> "starting", stopAsked |-> FALSE, cap |-> cap]),
             !.visionRef = id,
             !.startCalls = Append(q.startCalls,
                                   [pc |-> "start", cap |-> cap, by |-> by, vision |-> id, stream |-> 0]),
             !.ret = "pending"]

\* if (retryCount.current === 0) observationsRef.current = [];
ClearsBuffer(rc) == rc = 0

\* Variant without the early return.
AlreadyRecording_Never(cap) == FALSE

\* if (status === "Recording") return true;   (status as the closure captured it)
AlreadyRecording(cap) == cap = "Recording"

\* ensureScreenStream() up to its first suspension, as the position at which
\* `await ensureScreenStream()` leaves startSession: the promise is rejected
\* already ("threw"), resolved already with the stream held ("held"), or
\* waits for getDisplayMedia ("display").
ensureScreenStream(h, supported) ==
  IF ~supported THEN [pc |-> "threw", stream |-> 0]
  ELSE IF h.previewStreamRef # 0 THEN [pc |-> "held", stream |-> h.previewStreamRef]
  ELSE [pc |-> "display", stream |-> 0]

\* startSession from its first line to `await ensureScreenStream()` (or to
\* its early return).  The await suspends the function even when the promise
\* is settled already: what follows runs as a microtask, after the code that
\* called startSession() has run to its end.
startSession(h, cap, by, supported) ==
  IF AlreadyRecording(cap) THEN [h EXCEPT !.ret = "true"]
  ELSE
    LET a == [h EXCEPT
                !.status = IF h.retryCount > 0 THEN "Reconnecting..." ELSE "Initializing...",
                !.observationsRef = IF ClearsBuffer(h.retryCount) THEN <<>> ELSE h.observationsRef]
        e == ensureScreenStream(a, supported)
    IN [a EXCEPT
          !.startCalls = Append(a.startCalls,
                                [pc |-> e.pc, cap |-> cap, by |-> by, vision |-> 0, stream |-> e.stream]),
          !.ret = "pending"]

\* A startSession() whose `await ensureScreenStream()` is settled already: it
\* goes on as a microtask.
IsMicrotask(c) == c.pc \in {"held", "threw"}

NoMicrotask == \A i \in 1..Len(startCalls) : ~IsMicrotask(startCalls[i])

\* The i-th suspended startSession() goes on behind `await
\* ensureScreenStream()`: the catch block when the promise was rejected,
\* else from patchGetUserMediaToReturn(stream) to `await vision.start()`,
\* with the stream the promise was resolved with.
startSessionResume(h, i, keyTyped) ==
  LET c == h.startCalls[i]
      a == [h EXCEPT !.startCalls = RemoveAt(h.startCalls, i)]
  IN IF c.pc = "threw" THEN startSessionCatch(a)
     ELSE startSessionConnect(a, c.stream, c.cap, c.by, keyTyped)

\* The end of a task: the microtasks it left are run.  A task that starts
\* with none pending leaves at most the startSession() it has called.
runMicrotasks(h, keyTyped) ==
  IF h.startCalls # <<>> /\ IsMicrotask(h.startCalls[Len(h.startCalls)])
  THEN startSessionResume(h, Len(h.startCalls), keyTyped)
  ELSE h

\* Date.now() returns t.
ReadClock(t) ==
  /\ now' = t
  /\ clockOrdered' = (clockOrdered /\ t >= now)

\* handleStart after `await startSession()`
HandleStartDone(by, ret, t) ==
  IF by = "user" /\ ret = "true"
  THEN /\ isActive' = TRUE /\ startAt' = t /\ ReadClock(t)
       /\ recordingsOpen' = recordingsOpen + 1
  ELSE UNCHANGED <<isActive, startAt, now, clockOrdered, recordingsOpen>>

\* Date.now() reads the wall clock, which may be set back between two reads.
Times == 1..MaxTime

\* The arguments and results of the functions that are applied on their own.
jaccardVars == <<str1, str2, jaccard>>

JaccardIdle == str1 = <<>> /\ str2 = <<>> /\ jaccard = Ratio(0, 1)

\* The search box and what is computed from it.
rankVars == <<workflowQuery, similarityById, topMatchId>>

\* useState("") and the two memos computed for it
RankIdle ==
  /\ workflowQuery = <<>>
  /\ similarityById = EmptyMap
  /\ topMatchId = NoMatch

summaryVars == <<requestEnd, summary>>

SummaryIdle ==
  requestEnd = NoContent /\ summary = [threw |-> FALSE, highlights |-> <<>>]

\* Every handler step counts towards MaxSteps. No handler step applies a
\* function to the arguments kept for it on its own, and the search box
\* stays empty, so that the two memos keep their values.
Step ==
  /\ steps < MaxSteps
  /\ steps' = steps + 1
  /\ UNCHANGED <<raw, threshold, compressed, applied>>
  /\ UNCHANGED jaccardVars
  /\ UNCHANGED rankVars
  /\ UNCHANGED summaryVars

\* A step of a handler other than handleStop.
Tick ==
  /\ Step
  /\ UNCHANGED <<sessions, summaryCalls, flowTitle, flowDescription>>

\* ------------------------------------------------------------- actions
\* 0.6, the default of `threshold` and the value handleStop passes
DefaultThreshold == Ratio(3, 5)

Init ==
  /\ raw = <<>>
  /\ threshold = DefaultThreshold
  /\ compressed = <<>>
  /\ applied = FALSE
  /\ JaccardIdle
  /\ RankIdle
  /\ SummaryIdle
  /\ sessions = seedSessions
  /\ status = "Ready"
  /\ latestObservation = ""
  /\ previewStreamRef = 0
  /\ visionRef = 0
  /\ originalGetUserMediaRef = NoGUM
  /\ patchedRef = FALSE
  /\ observationsRef = <<>>
  /\ retryCount = 0
  /\ getUserMedia = NativeGUM
  /\ hasGetDisplayMedia \in BOOLEAN
  /\ apiKeyStored \in BOOLEAN
  /\ streams = <<>>
  /\ visions = <<>>
  /\ startCalls = <<>>
  /\ rendered = "Ready"
  /\ renders = {"Ready"}
  /\ testCalls = <<>>
  /\ stopCalls = <<>>
  /\ timers = <<>>
  /\ isActive = FALSE
  /\ summaryCalls = <<>>
  /\ startAt = 0
  /\ capturedObservations = <<>>
  /\ flowTitle = <<>>
  /\ flowDescription = <<>>
  /\ now = 1
  /\ clockOrdered = TRUE
  /\ steps = 0
  /\ ev = NoEvent
  /\ transientRun = 0
  /\ retriesInRun = 0
  /\ sessionObs = <<>>
  /\ recordingsOpen = 0

\* What a step leaves of the history variables when it neither delivers a
\* callback nor stops the session.
KeepRun == UNCHANGED <<transientRun, retriesInRun>>

\* Click on Start: handleStart up to the first suspension of startSession()
\* that something outside has to end.  Nothing else runs in the task of a
\* click, so the microtask behind `await ensureScreenStream()` follows at once.
HandleStart ==
  /\ Tick
  /\ NoMicrotask
  /\ ~isActive
  /\ \E keyTyped \in BOOLEAN, t \in Times :
       LET h == runMicrotasks(startSession(Cur, status, "user", hasGetDisplayMedia), keyTyped)
       IN /\ Set(h)
          /\ HandleStartDone("user", h.ret, t)
          /\ ev' = [op |-> "startSession", by |-> "user", ret |-> h.ret, arg |-> ""]
  /\ sessionObs' = IF AlreadyRecording(status) THEN sessionObs ELSE <<>>
  /\ KeepRun
  /\ UNCHANGED <<hasGetDisplayMedia, testCalls, stopCalls, capturedObservations>>

\* getDisplayMedia() resolved for the i-th suspended startSession():
\* the rest of ensureScreenStream, then startSession up to vision.start().
DisplayResolve(i) ==
  /\ Tick
  /\ NoMicrotask
  /\ startCalls[i].pc = "display"
  /\ \E keyTyped \in BOOLEAN :
       LET c == startCalls[i]
           stream == Len(streams) + 1
           a == [Cur EXCEPT !.startCalls = RemoveAt(startCalls, i),
                            !.streams = Append(streams, "live"),
                            !.previewStreamRef = stream]
           h == startSessionConnect(a, stream, c.cap, c.by, keyTyped)
       IN /\ Set(h)
          /\ ev' = [op |-> "getDisplayMedia", by |-> c.by, ret |-> h.ret, arg |-> "resolved"]
  /\ KeepRun
  /\ UNCHANGED <<hasGetDisplayMedia, testCalls, stopCalls, isActive, startAt,
                 capturedObservations, now, clockOrdered, sessionObs, recordingsOpen>>

\* getDisplayMedia() rejected (permission denied): the catch block.
DisplayReject(i) ==
  /\ Tick
  /\ NoMicrotask
  /\ startCalls[i].pc = "display"
  /\ LET c == startCalls[i]
         h == startSessionCatch([Cur EXCEPT !.startCalls = RemoveAt(startCalls, i)])
     IN /\ Set(h)
        /\ ev' = [op |-> "getDisplayMedia", by |-> c.by, ret |-> h.ret, arg |-> "rejected"]
  /\ KeepRun
  /\ UNCHANGED <<hasGetDisplayMedia, testCalls, stopCalls, isActive, startAt,
                 capturedObservations, now, clockOrdered, sessionObs, recordingsOpen>>

\* Variant that also resets the retry counter when a (re)connect succeeds.
startSessionRecording_ResetsRetry(h, v) ==
  [h EXCEPT !.visions[v].st = "open", !.status = "Recording", !.ret = "true",
            !.retryCount = 0]

\* await vision.start() resolved: setStatus("Recording"); return true;
startSessionRecording(h, v) ==
  [h EXCEPT !.visions[v].st = "open", !.status = "Recording", !.ret = "true"]

VisionStartResolve(i) ==
  /\ Tick
  /\ NoMicrotask
  /\ startCalls[i].pc = "start"
  /\ \E t \in Times :
       LET c == startCalls[i]
           h == startSessionRecording([Cur EXCEPT !.startCalls = RemoveAt(startCalls, i)], c.vision)
       IN /\ Set(h)
          /\ HandleStartDone(c.by, h.ret, t)
          /\ ev' = [op |-> "vision.start", by |-> c.by, ret |-> h.ret, arg |-> "resolved"]
  /\ KeepRun
  /\ UNCHANGED <<hasGetDisplayMedia, testCalls, stopCalls, capturedObservations, sessionObs>>

\* await vision.start() rejected: the catch block.
VisionStartReject(i) ==
  /\ Tick
  /\ NoMicrotask
  /\ startCalls[i].pc = "start"
  /\ LET c == startCalls[i]
         a == [Cur EXCEPT !.startCalls = RemoveAt(startCalls, i),
                          !.visions[c.vision].st = "failed"]
         h == startSessionCatch(a)
     IN /\ Set(h)
        /\ ev' = [op |-> "vision.start", by |-> c.by, ret |-> h.ret, arg |-> "rejected"]
  /\ KeepRun
  /\ UNCHANGED <<hasGetDisplayMedia, testCalls, stopCalls, isActive, startAt,
                 capturedObservations, now, clockOrdered, sessionObs, recordingsOpen>>

\* ------------------------------------------------------------- onResult
\* if (result && typeof result === "object" && result.result)
\*   setLatestObservation(String(result.result));
LatestAfter(latest, result) ==
  IF result.result # "" THEN result.result ELSE latest

\* Variant without `retryCount.current = 0`.
onResult_KeepsRetryCount(h, result, t) ==
  [h EXCEPT !.observationsRef = Append(h.observationsRef, [ts |-> t, result |-> result]),
            !.latestObservation = LatestAfter(h.latestObservation, result)]

\* onResult: (result) => { retryCount.current = 0; ...push({ ts: Date.now(), result }); ... }
onResult(h, result, t) ==
  [h EXCEPT !.retryCount = 0,
            !.observationsRef = Append(h.observationsRef, [ts |-> t, result |-> result]),
            !.latestObservation = LatestAfter(h.latestObservation, result)]

\* Variant in which stopSession() returns observationsRef.current itself.
returnedAfterPush_SameArray(returned, obs) == Append(returned, obs)

\* return [...observationsRef.current]: the caller's list is a new array, so
\* a push onto the buffer after the return does not reach it.
returnedAfterPush(returned, obs) == returned

OnResult(v, result) ==
  /\ Tick
  /\ NoMicrotask
  /\ Delivering(v)
  /\ \E t \in Times :
       /\ Set(onResult(Cur, result, t))
       /\ ReadClock(t)
       /\ sessionObs' = Append(sessionObs, [ts |-> t, result |-> result])
       /\ capturedObservations'
            = returnedAfterPush(capturedObservations, [ts |-> t, result |-> result])
  /\ ev' = [op |-> "onResult", by |-> "vision", ret |-> "none", arg |-> result.result]
  /\ transientRun' = 0
  /\ retriesInRun' = 0
  /\ UNCHANGED <<hasGetDisplayMedia, testCalls, stopCalls, isActive, startAt, recordingsOpen>>

\* -------------------------------------------------------------- onError
\* Variant that takes every error for a stream error.
isStreamError_Any(err) == TRUE

\* JSON.stringify(err).includes("stream_not_found") || ...includes("404")
isStreamError(err) == err \in {"stream_not_found", "404"}

\* Variant with the cap off by one.
RetryAllowed_OffByOne(err, rc) == isStreamError(err) /\ rc <= RetryCap

\* if (isStreamError && retryCount.current < 3)
RetryAllowed(err, rc) == isStreamError(err) /\ rc < RetryCap

onError(h, err, cap) ==
  IF RetryAllowed(err, h.retryCount)
  THEN [h EXCEPT !.retryCount = h.retryCount + 1,
                 !.timers = Append(h.timers, cap),
                 !.ret = "retry"]
  ELSE [h EXCEPT !.status = "Connection Lost",
                 !.latestObservation = ConnectionLostText,
                 !.ret = "lost"]

OnError(v, err) ==
  /\ Tick
  /\ NoMicrotask
  /\ Delivering(v)
  /\ LET h == onError(Cur, err, visions[v].cap)
     IN /\ Set(h)
        /\ ev' = [op |-> "onError", by |-> "vision", ret |-> h.ret, arg |-> err]
        /\ retriesInRun' = retriesInRun + (Len(h.timers) - Len(timers))
  /\ transientRun' = IF err \in {"stream_not_found", "404"}
                     THEN transientRun + 1 ELSE transientRun
  /\ UNCHANGED <<hasGetDisplayMedia, testCalls, stopCalls, isActive, startAt,
                 capturedObservations, now, clockOrdered, sessionObs, recordingsOpen>>

\* setTimeout(() => { if (visionRef.current) visionRef.current.stop()
\*                       .catch(() => {}); startSession(); }, 1000)
retryCallback(h, cap, supported, keyTyped) ==
  LET a == [h EXCEPT !.timers = Tail(h.timers)]
      b == IF a.visionRef # 0 THEN VisionStop(a, a.visionRef) ELSE a
  IN runMicrotasks(startSession(b, cap, "retry", supported), keyTyped)

RetryFire ==
  /\ Tick
  /\ NoMicrotask
  /\ timers # <<>>
  /\ \E keyTyped \in BOOLEAN :
       LET h == retryCallback(Cur, Head(timers), hasGetDisplayMedia, keyTyped)
       IN /\ Set(h)
          /\ ev' = [op |-> "retry", by |-> "retry", ret |-> h.ret, arg |-> ""]
  /\ KeepRun
  /\ UNCHANGED <<hasGetDisplayMedia, testCalls, stopCalls, isActive, startAt,
                 capturedObservations, now, clockOrdered, sessionObs, recordingsOpen>>

\* ---------------------------------------------------------- stopSession
\* stopSession from `if (previewStreamRef.current)` to its return.
stopSessionRelease(h) ==
  LET a == IF h.previewStreamRef # 0
           THEN [h EXCEPT !.streams[h.previewStreamRef] = "stopped",
                          !.previewStreamRef = 0]
           ELSE h
  IN [restoreGetUserMedia(a) EXCEPT !.status = "Ready",
                                    !.latestObservation = "",
                                    !.ret = "returned",
                                    !.out = h.observationsRef]

\* Variant without the `if (visionRef.current)` test: stop() of null throws.
stopSession_NoNullCheck(h) ==
  LET a == [h EXCEPT !.retryCount = 0, !.status = "Stopping..."]
  IN IF a.visionRef # 0
     THEN [VisionStop(a, a.visionRef) EXCEPT !.ret = "pending"]
     ELSE [a EXCEPT !.ret = "threw"]

\* stopSession from its first line to `await visionRef.current.stop()`.
stopSession(h) ==
  LET a == [h EXCEPT !.retryCount = 0, !.status = "Stopping..."]
  IN IF a.visionRef # 0
     THEN [VisionStop(a, a.visionRef) EXCEPT !.ret = "pending"]
     ELSE stopSessionRelease(a)

\* Variant without the `.catch(() => {})` on the awaited stop().
VisionStopThrows_NoCatch(outcome) == outcome = "rejected"

\* await visionRef.current.stop().catch(() => {}): a rejection is swallowed.
VisionStopThrows(outcome) == FALSE

\* stopSession after the awaited stop() settled with `outcome`.
stopSessionResume(h, outcome) ==
  IF VisionStopThrows(outcome) THEN [h EXCEPT !.ret = "threw"]
  ELSE stopSessionRelease([h EXCEPT !.visionRef = 0])

\* The observation { ts, result: { result: "a" } } with its text spelled
\* out, as compressObservations reads it.
TextPayload(obs) ==
  [ts |-> obs.ts,
   result |-> [result |-> [type |-> "string", value |-> <<obs.result.result>>]]]

TextPayloads(observations) ==
  [i \in 1..Len(observations) |-> TextPayload(observations[i])]

\* Math.random().toString(36).slice(2, 7): up to five digits of base 36,
\* drawn without a look at the ids in use.  0.5 gives "i"; 1300/46656 gives
\* "104", the suffix of a seed session.
RandomSuffixes == {"i", "104"}

\* "Focused session"
DefaultTitle == <<"F", "o", "c", "u", "s", "e", "d", " ", "s", "e", "s", "s", "i", "o", "n">>

\* Variant with the two times exchanged.
newSession_SwapsTimes(id, title, description, started, ended, highlights, captured, compressedData) ==
  [id |-> id,
   title |-> IF Len(trim(title)) # 0 THEN trim(title) ELSE DefaultTitle,
   description |-> trim(description),
   startedAt |-> ended, endedAt |-> started,
   tags |-> <<"screen-capture", "compressed">>,
   highlights |-> highlights,
   rawObservations |-> captured, compressedLog |-> compressedData]

\* const titleFinal = flowTitle.trim().length ? flowTitle.trim() : "Focused session";
\* const newSession: Session = { ... }, with `title` and `description` the
\* two Flow inputs as the click on Stop found them.  An absent description
\* (`flowDescription.trim() || undefined`) is the empty one.
newSession(id, title, description, started, ended, highlights, captured, compressedData) ==
  [id |-> id,
   title |-> IF Len(trim(title)) # 0 THEN trim(title) ELSE DefaultTitle,
   description |-> trim(description),
   startedAt |-> started, endedAt |-> ended,
   tags |-> <<"screen-capture", "compressed">>,
   highlights |-> highlights,
   rawObservations |-> captured, compressedLog |-> compressedData]

\* ["No summary generated (no key provided)"]
NoKeyHighlights == << <<"N", "o", " ", "s", "u", "m", "m", "a", "r", "y", " ", "g", "e", "n", "e", "r", "a", "t", "e", "d", " ", "(", "n", "o", " ", "k", "e", "y", " ", "p", "r", "o", "v", "i", "d", "e", "d", ")">> >>

\* setSessions((prev) => [newSession, ...prev]); setFlowTitle("");
\* setFlowDescription("")
Prepend(call, highlights) ==
  /\ \E suffix \in RandomSuffixes :
       sessions' =
         <<newSession(SessionId(suffix), call.flowTitle, call.flowDescription,
                      call.startAt, call.endedAt,
                      highlights, call.capturedObservations, call.compressedData)>>
         \o sessions
  /\ flowTitle' = <<>>
  /\ flowDescription' = <<>>
  /\ recordingsOpen' = recordingsOpen - 1

\* handleStop after `await stopSession()`, for the click `c` that read
\* startAt and the two Flow inputs from its render and endedAt from the
\* clock: to the await of generateSessionSummary when the build has
\* VITE_OPENROUTER_API_KEY, to its end when it has not.
HandleStopDone(h, c) ==
  IF h.ret = "returned"
  THEN /\ capturedObservations' = h.out
       /\ isActive' = FALSE
       /\ startAt' = 0
       /\ LET call == [startAt |-> c.startAt, endedAt |-> c.endedAt,
                       flowTitle |-> c.flowTitle,
                       flowDescription |-> c.flowDescription,
                       capturedObservations |-> h.out,
                       compressedData |->
                         compressObservations(TextPayloads(h.out), DefaultThreshold)]
          IN \E apiKey \in BOOLEAN :
               IF apiKey
               THEN /\ summaryCalls' = Append(summaryCalls, call)
                    /\ UNCHANGED <<sessions, recordingsOpen, flowTitle, flowDescription>>
               ELSE /\ Prepend(call, NoKeyHighlights)
                    /\ UNCHANGED summaryCalls
  ELSE UNCHANGED <<capturedObservations, isActive, startAt, sessions, summaryCalls,
                   recordingsOpen, flowTitle, flowDescription>>

\* A caller other than handleStop receives what stopSession() returned.
StopSessionDone(h) ==
  /\ capturedObservations' = IF h.ret = "returned" THEN h.out ELSE capturedObservations
  /\ UNCHANGED <<isActive, startAt, sessions, summaryCalls, recordingsOpen,
                 flowTitle, flowDescription>>

\* Click on Stop: handleStop up to the first suspension of stopSession().
HandleStop ==
  /\ Step
  /\ NoMicrotask
  /\ isActive /\ startAt # 0
  /\ \E t \in Times :
       LET h == stopSession(Cur)
           c == [by |-> "user", startAt |-> startAt, endedAt |-> t,
                 flowTitle |-> flowTitle, flowDescription |-> flowDescription]
       IN /\ Set(h)
          /\ HandleStopDone(h, c)
          /\ ReadClock(t)
          /\ stopCalls' = IF h.ret = "pending" THEN Append(stopCalls, c) ELSE stopCalls
          /\ ev' = [op |-> "stopSession", by |-> "user", ret |-> h.ret, arg |-> ""]
  /\ transientRun' = 0
  /\ retriesInRun' = 0
  /\ UNCHANGED <<hasGetDisplayMedia, testCalls, sessionObs>>

\* The vision stop() awaited by the i-th suspended stopSession() settled.
StopResume(i) ==
  /\ Step
  /\ NoMicrotask
  /\ \E outcome \in {"resolved", "rejected"} :
       LET h == stopSessionResume(Cur, outcome)
           c == stopCalls[i]
       IN /\ Set(h)
          /\ IF c.by = "user"
             THEN HandleStopDone(h, c)
             ELSE StopSessionDone(h)
          /\ ev' = [op |-> "vision.stop", by |-> c.by, ret |-> h.ret, arg |-> outcome]
  /\ stopCalls' = RemoveAt(stopCalls, i)
  /\ KeepRun
  /\ UNCHANGED <<hasGetDisplayMedia, testCalls, now, clockOrdered, sessionObs>>

\* What the request of a suspended generateSessionSummary ends in: the two
\* failures, and a content of three lines of which two are kept.
SummaryResponses ==
  { FetchRejected, JsonRejected,
    ContentIs(<<"-", " ", "E", "d", "i", "t", "e", "d", " ", "t", "h", "e", " ", "p", "l", "a", "n">> \o <<"\n">> \o <<"2", ".", " ", "o", "k">> \o <<"\n">> \o <<"*", " ", "R", "a", "n", " ", "t", "h", "e", " ", "t", "e", "s", "t", "s">>) }

\* The request of the i-th suspended generateSessionSummary ended: handleStop
\* from there to its end.
SummarySettle(i) ==
  /\ Step
  /\ NoMicrotask
  /\ \E settled \in SummaryResponses :
       LET call == summaryCalls[i]
           r == generateSessionSummary(call.compressedData, settled)
       IN /\ IF r.threw
             THEN UNCHANGED <<sessions, recordingsOpen, flowTitle, flowDescription>>
             ELSE Prepend(call, r.highlights)
          /\ ev' = [op |-> "generateSessionSummary", by |-> "user",
                    ret |-> IF r.threw THEN "threw" ELSE "highlights",
                    arg |-> settled.kind]
  /\ summaryCalls' = RemoveAt(summaryCalls, i)
  /\ Set(Cur)
  /\ KeepRun
  /\ UNCHANGED <<hasGetDisplayMedia, testCalls, stopCalls, isActive, startAt,
                 capturedObservations, now, clockOrdered, sessionObs>>

\* What is typed into a Flow input: nothing, a blank, a word with blanks
\* around it.
FlowTexts == {<<>>, <<" ">>, <<" ", "o", "k", " ">>}

\* What typing into a Flow input leaves alone.
FlowTyping ==
  /\ Step
  /\ NoMicrotask
  /\ Set(Cur)
  /\ KeepRun
  /\ UNCHANGED <<hasGetDisplayMedia, testCalls, stopCalls, isActive, startAt,
                 capturedObservations, now, clockOrdered, sessionObs, recordingsOpen,
                 sessions, summaryCalls>>

\* onChange={(e) => setFlowTitle(e.target.value)}
SetFlowTitle(value) ==
  /\ value # flowTitle
  /\ flowTitle' = value
  /\ UNCHANGED flowDescription
  /\ ev' = [op |-> "setFlowTitle", by |-> "user", ret |-> "none", arg |-> ""]
  /\ FlowTyping

\* onChange={(e) => setFlowDescription(e.target.value)}
SetFlowDescription(value) ==
  /\ value # flowDescription
  /\ flowDescription' = value
  /\ UNCHANGED flowTitle
  /\ ev' = [op |-> "setFlowDescription", by |-> "user", ret |-> "none", arg |-> ""]
  /\ FlowTyping

\* One handler runs to its next suspension.
Handler ==
  \/ HandleStart
  \/ \E i \in 1..Len(startCalls) : DisplayResolve(i)
  \/ \E i \in 1..Len(startCalls) : DisplayReject(i)
  \/ \E i \in 1..Len(startCalls) : VisionStartResolve(i)
  \/ \E i \in 1..Len(startCalls) : VisionStartReject(i)
  \/ \E v \in 1..Len(visions), r \in Results : OnResult(v, r)
  \/ \E v \in 1..Len(visions), e \in Errors : OnError(v, e)
  \/ RetryFire
  \/ HandleStop
  \/ \E i \in 1..Len(stopCalls) : StopResume(i)
  \/ \E i \in 1..Len(summaryCalls) : SummarySettle(i)
  \/ \E value \in FlowTexts : SetFlowTitle(value)
  \/ \E value \in FlowTexts : SetFlowDescription(value)

Next == Handler

Spec == Init /\ [][Next]_vars

\* --------------------------------------- compressObservations on its own
\* Texts the vision model may return, as character sequences:
\* "a b c d", "a b c", "A b".
TextABCD == <<"a", " ", "b", " ", "c", " ", "d">>
TextABC  == <<"a", " ", "b", " ", "c">>
TextAb   == <<"A", " ", "b">>

\* result payloads { result: <string> } and { result: 7 }
Payloads ==
  {[result |-> [type |-> "string", value |-> t]] : t \in {TextABCD, TextABC, TextAb}}
    \cup {[result |-> [type |-> "number", value |-> <<"7">>]]}

\* values of Date.now(), in milliseconds
Timestamps == {1000, 2500}

Observations == [ts : Timestamps, result : Payloads]

\* onResult stamps each observation with Date.now() and appends it, so the
\* buffer handed to compressObservations is in non-decreasing timestamp order.
NonDecreasing(list) ==
  \A i \in 1..Len(list) - 1 : list[i].ts <= list[i + 1].ts

ObservationLists ==
  {list \in UNION {[1..n -> Observations] : n \in 0..MaxLen} : NonDecreasing(list)}

\* 0, 0.5, 0.6, 1 and 1.5
Thresholds == {Ratio(0, 1), Ratio(1, 2), DefaultThreshold, Ratio(1, 1), Ratio(3, 2)}

\* The session controller as constructed, with every facility present.
SessionIdle ==
  /\ status = "Ready" /\ latestObservation = ""
  /\ previewStreamRef = 0 /\ visionRef = 0
  /\ originalGetUserMediaRef = NoGUM /\ patchedRef = FALSE
  /\ observationsRef = <<>> /\ retryCount = 0
  /\ getUserMedia = NativeGUM
  /\ hasGetDisplayMedia = TRUE /\ apiKeyStored = TRUE
  /\ streams = <<>> /\ visions = <<>>
  /\ startCalls = <<>> /\ stopCalls = <<>> /\ timers = <<>>
  /\ rendered = "Ready" /\ renders = {"Ready"} /\ testCalls = <<>>
  /\ summaryCalls = <<>>
  /\ isActive = FALSE /\ startAt = 0
  /\ capturedObservations = <<>>
  /\ flowTitle = <<>> /\ flowDescription = <<>>
  /\ now = 1 /\ clockOrdered = TRUE /\ steps = 0 /\ ev = NoEvent
  /\ transientRun = 0 /\ retriesInRun = 0 /\ sessionObs = <<>>
  /\ recordingsOpen = 0

\* Every variable of the session controller and of the capture button.
controllerVars ==
  <<status, latestObservation, previewStreamRef, visionRef,
    originalGetUserMediaRef, patchedRef, observationsRef, retryCount,
    getUserMedia, hasGetDisplayMedia, apiKeyStored, streams, visions,
    startCalls, rendered, renders, testCalls, stopCalls, timers, isActive, startAt,
    capturedObservations, flowTitle, flowDescription, now, clockOrdered, steps, ev,
    transientRun, retriesInRun, sessionObs, recordingsOpen, summaryCalls>>

InitCompress ==
  /\ raw \in ObservationLists
  /\ threshold \in Thresholds
  /\ compressed = <<>>
  /\ applied = FALSE
  /\ JaccardIdle
  /\ RankIdle
  /\ SummaryIdle
  /\ sessions = seedSessions
  /\ SessionIdle

\* const compressedData = compressObservations(raw, threshold)
Compress ==
  /\ ~applied
  /\ compressed' = compressObservations(raw, threshold)
  /\ applied' = TRUE
  /\ UNCHANGED <<raw, threshold>>
  /\ UNCHANGED jaccardVars
  /\ UNCHANGED rankVars
  /\ UNCHANGED summaryVars
  /\ UNCHANGED sessions
  /\ UNCHANGED controllerVars

NextCompress == Compress

SpecCompress == InitCompress /\ [][NextCompress]_vars

\* --------------------------------- calculateJaccardSimilarity on its own
\* Characters: a lower-case letter, its upper-case form and a blank.
Chars == {"a", "A", " "}

Strings == UNION {[1..n -> Chars] : n \in 0..MaxStrLen}

InitJaccard ==
  /\ str1 \in Strings
  /\ str2 \in Strings
  /\ jaccard = Ratio(0, 1)
  /\ applied = FALSE
  /\ raw = <<>> /\ threshold = DefaultThreshold /\ compressed = <<>>
  /\ RankIdle
  /\ SummaryIdle
  /\ sessions = seedSessions
  /\ SessionIdle

\* const similarity = calculateJaccardSimilarity(str1, str2)
Jaccard ==
  /\ ~applied
  /\ jaccard' = calculateJaccardSimilarity(str1, str2)
  /\ applied' = TRUE
  /\ UNCHANGED <<str1, str2, raw, threshold, compressed>>
  /\ UNCHANGED rankVars
  /\ UNCHANGED summaryVars
  /\ UNCHANGED sessions
  /\ UNCHANGED controllerVars

NextJaccard == Jaccard

SpecJaccard == InitJaccard /\ [][NextJaccard]_vars

\* ------------------------------------------------ the search ranker alone
\* A session recorded earlier, with the given texts.
Recorded(suffix, title, description, highlights, log) ==
  [id |-> SessionId(suffix), title |-> title, description |-> description,
   startedAt |-> 1000, endedAt |-> 2500,
   tags |-> <<"screen-capture", "compressed">>,
   highlights |-> highlights,
   rawObservations |-> <<>>, compressedLog |-> log]

\* A compressed log one event longer than the prefix the ranker reads: "x"
\* and "y" in turn, and "q" in the event behind the prefix.
LongLog ==
  [i \in 1..(LogPrefix + 1) |->
     NewEvent(IF i > LogPrefix THEN <<"q">> ELSE IF i % 2 = 1 THEN <<"x">> ELSE <<"y">>,
              [ts |-> 1000 + i])]

\* "a b" and "b a" score the same for every query; "c" with description
\* "a a b" has a repeated token; the fourth has an empty title and
\* punctuation in a highlight; the fifth has the long log; the sixth has
\* a capitalised title; "a a b b c" and "a" score differently for the
\* query "a a b" only by the rounding of the quotients; the last was given
\* the id of the first by an equal draw of Math.random().
SessionPool ==
  { Recorded("1", <<"a", " ", "b">>, <<>>, <<>>, <<>>),
    Recorded("2", <<"b", " ", "a">>, <<>>, <<>>, <<>>),
    Recorded("3", <<"c">>, <<"a", " ", "a", " ", "b">>, <<>>, <<>>),
    Recorded("4", <<>>, <<>>, << <<"A", "-", "b">>, <<"c">> >>, <<>>),
    Recorded("5", <<"z">>, <<>>, <<>>, LongLog),
    Recorded("6", <<"R", "e", "v", "i", "e", "w">>, <<>>, <<>>, <<>>),
    Recorded("7", <<"a", " ", "a", " ", "b", " ", "b", " ", "c">>, <<>>, <<>>, <<>>),
    Recorded("8", <<"a">>, <<>>, <<>>, <<>>),
    Recorded("1", <<"z">>, <<>>, <<>>, <<>>) }

\* Session lists: nothing keeps two sessions from having one id.
SessionLists ==
  UNION { [1..n -> SessionPool] : n \in 0..MaxSessions }

\* What is typed into the search box: nothing, blanks, punctuation only,
\* words in either case, with blanks around, with punctuation between.
Queries ==
  { <<>>, <<" ">>, <<"-">>, <<"a">>, <<" ", "A", " ">>, <<"b", " ", "a">>, <<"a", "-", "c">>, <<"c", " ", "c", " ", "a">>, <<"q">>, <<"a", " ", "a", " ", "b">>,
    <<"d", "e", "s", "i", "g", "n", " ", "R", "E", "V", "I", "E", "W">> }

InitRank ==
  /\ sessions \in SessionLists
  /\ RankIdle
  /\ SummaryIdle
  /\ raw = <<>> /\ threshold = DefaultThreshold /\ compressed = <<>>
  /\ applied = FALSE
  /\ JaccardIdle
  /\ SessionIdle

\* the render after a change of `workflowQuery` or `sessions`
Render ==
  /\ similarityById' = similarityByIdMemo(workflowQuery', sessions')
  /\ topMatchId' = topMatchIdMemo(workflowQuery', sessions', similarityById')

RankOnly ==
  /\ UNCHANGED <<raw, threshold, compressed, applied>>
  /\ UNCHANGED summaryVars
  /\ UNCHANGED jaccardVars
  /\ UNCHANGED controllerVars

\* onChange={(e) => setWorkflowQuery(e.target.value)}
SetWorkflowQuery(value) ==
  /\ value # workflowQuery
  /\ workflowQuery' = value
  /\ UNCHANGED sessions
  /\ Render
  /\ RankOnly

\* onClick={() => setWorkflowQuery("")}
ClearWorkflowQuery ==
  /\ workflowQuery # <<>>
  /\ workflowQuery' = <<>>
  /\ UNCHANGED sessions
  /\ Render
  /\ RankOnly

\* setSessions((prev) => prev.filter((s) => s.id !== id))
deleteSession(id) ==
  /\ sessions' = SelectSeq(sessions, LAMBDA s : s.id # id)
  /\ UNCHANGED workflowQuery
  /\ Render
  /\ RankOnly

NextRank ==
  \/ \E value \in Queries : SetWorkflowQuery(value)
  \/ ClearWorkflowQuery
  \/ \E i \in 1..Len(sessions) : deleteSession(sessions[i].id)

SpecRank == InitRank /\ [][NextRank]_vars

\* -------------------------------------- generateSessionSummary on its own
\* Lines a response may have:
\*   "- abcdef"     a dash marker, 6 characters behind it
\*   "1. abcde"     a number marker, 5 characters behind it
\*   "abcdefg"      no marker
\*   " - abcd"      a marker behind a blank, which the pattern does not reach
\*   ""             an empty line
\*   "(bullet)abcdef"  a bullet marker with no blank behind it
\*   "12.-* xyzxyz\r"  several marker characters and a carriage return
\*   "3 files"      a text that begins with a digit
ResponseLines ==
  { <<"-", " ", "a", "b", "c", "d", "e", "f">>, <<"1", ".", " ", "a", "b", "c", "d", "e">>, <<"a", "b", "c", "d", "e", "f", "g">>, <<" ", "-", " ", "a", "b", "c", "d">>, <<>>,
    <<Bullet>> \o <<"a", "b", "c", "d", "e", "f">>, <<"1", "2", ".", "-", "*", " ", "x", "y", "z", "x", "y", "z">> \o <<"\r">>, <<"3", " ", "f", "i", "l", "e", "s">> }

ResponseContents ==
  UNION { {join(lines, <<"\n">>) : lines \in [1..n -> ResponseLines]}
          : n \in 1..MaxLines }

RequestEnds ==
  {FetchRejected, JsonRejected, NullBody, NoContent, ContentNotAString}
    \cup {ContentIs(text) : text \in ResponseContents}

InitSummary ==
  /\ requestEnd \in RequestEnds
  /\ summary = [threw |-> FALSE, highlights |-> <<>>]
  /\ applied = FALSE
  /\ raw = <<>> /\ threshold = DefaultThreshold /\ compressed = <<>>
  /\ JaccardIdle
  /\ RankIdle
  /\ sessions = seedSessions
  /\ SessionIdle

\* generatedHighlights = await generateSessionSummary(compressedData, apiKey)
Summarize ==
  /\ ~applied
  /\ summary' = generateSessionSummary(<<>>, requestEnd)
  /\ applied' = TRUE
  /\ UNCHANGED <<requestEnd, raw, threshold, compressed>>
  /\ UNCHANGED jaccardVars
  /\ UNCHANGED rankVars
  /\ UNCHANGED sessions
  /\ UNCHANGED controllerVars

NextSummary == Summarize

SpecSummary == InitSummary /\ [][NextSummary]_vars

\* ------------------------------------------------- the hook on its own
\* useOvershootSession returns { startSession, stopSession, ... }: here the
\* two functions are also called directly, in any state, without the guards
\* of handleStart / handleStop, and so are the two exported functions the
\* page does not call: clearOvershootApiKey and runConnectivityTest.
MaxHookSteps == 6    \* handler steps in one behaviour of SpecHook

\* A direct call runs in a task of its own (React has rendered the hook again
\* since the last step) or in the task of the direct call before it, which
\* started from the render before.  While a microtask is pending the task is
\* not over.
TaskRenders == IF NoMicrotask THEN {rendered, status} ELSE {rendered}

\* Every render makes a startSession of its own, which tests the status of
\* that render; the caller holds the one of the render its task started from
\* or one it kept from an earlier render.
Renders(r) == renders \cup {r}

\* startSession() called directly: to `await ensureScreenStream()`.  The
\* status it tests is the one of the render its closure belongs to.
StartSessionCall ==
  /\ Tick
  /\ \E r \in TaskRenders : \E cap \in Renders(r) :
       LET h == startSession(Cur, cap, "client", hasGetDisplayMedia)
       IN /\ SetRefs(h)
          /\ rendered' = r
          /\ renders' = renders \cup {r}
          /\ ev' = [op |-> "startSession", by |-> "client", ret |-> h.ret, arg |-> ""]
          /\ sessionObs' = IF AlreadyRecording(cap) THEN sessionObs ELSE <<>>
  /\ KeepRun
  /\ UNCHANGED <<hasGetDisplayMedia, testCalls, stopCalls, isActive, startAt,
                 capturedObservations, now, clockOrdered, recordingsOpen>>

\* The microtask behind `await ensureScreenStream()` of the i-th suspended
\* startSession(); microtasks run in the order in which they were queued.
\* React renders when the last of them has run.
StartSessionResume(i) ==
  /\ Tick
  /\ IsMicrotask(startCalls[i])
  /\ \A j \in 1..(i - 1) : ~IsMicrotask(startCalls[j])
  /\ \E keyTyped \in BOOLEAN :
       LET c == startCalls[i]
           h == startSessionResume(Cur, i, keyTyped)
       IN /\ SetRefs(h)
          /\ rendered' = IF \E j \in 1..Len(h.startCalls) : IsMicrotask(h.startCalls[j])
                         THEN rendered ELSE h.status
          /\ renders' = renders \cup {rendered'}
          /\ ev' = [op |-> "ensureScreenStream", by |-> c.by, ret |-> h.ret,
                    arg |-> IF c.pc = "threw" THEN "threw" ELSE "resolved"]
  /\ KeepRun
  /\ UNCHANGED <<hasGetDisplayMedia, testCalls, stopCalls, isActive, startAt,
                 capturedObservations, now, clockOrdered, sessionObs, recordingsOpen>>

\* stopSession() called directly: to `await visionRef.current.stop()`, or to
\* its return when there is no client.
StopSessionCall ==
  /\ Step
  /\ LET h == stopSession(Cur)
     IN /\ SetRefs(h)
        /\ \E r \in TaskRenders : rendered' = r /\ renders' = renders \cup {r}
        /\ StopSessionDone(h)
        /\ stopCalls' = IF h.ret = "pending"
                        THEN Append(stopCalls, [by |-> "client", startAt |-> 0, endedAt |-> 0,
                                                flowTitle |-> <<>>, flowDescription |-> <<>>])
                        ELSE stopCalls
        /\ ev' = [op |-> "stopSession", by |-> "client", ret |-> h.ret, arg |-> ""]
  /\ transientRun' = 0
  /\ retriesInRun' = 0
  /\ UNCHANGED <<hasGetDisplayMedia, testCalls, now, clockOrdered, sessionObs>>

\* What a step outside the hook and the page leaves alone.
HookIdle ==
  /\ UNCHANGED <<status, latestObservation, previewStreamRef, visionRef,
                 originalGetUserMediaRef, patchedRef, observationsRef, retryCount,
                 startCalls, rendered, renders, timers>>
  /\ UNCHANGED <<hasGetDisplayMedia, stopCalls, isActive, startAt,
                 capturedObservations, now, clockOrdered, sessionObs, recordingsOpen>>
  /\ KeepRun

\* clearOvershootApiKey(): localStorage.removeItem(STORAGE_KEY)
clearOvershootApiKey(stored) == FALSE

ClearOvershootApiKey ==
  /\ Tick
  /\ apiKeyStored' = clearOvershootApiKey(apiKeyStored)
  /\ ev' = [op |-> "clearOvershootApiKey", by |-> "client", ret |-> "none", arg |-> ""]
  /\ HookIdle
  /\ UNCHANGED <<getUserMedia, streams, visions, testCalls>>

\* runConnectivityTest() to `await vision.start()`: without a stored key it
\* returns at once; with one it makes a canvas stream, points getUserMedia at
\* it (keeping the function it found in a local, and leaving the hook's
\* patchedRef and originalGetUserMediaRef alone), and creates and starts a
\* client whose onResult only logs and which has no onError.
RunConnectivityTest ==
  /\ Tick
  /\ IF ~apiKeyStored
     THEN /\ UNCHANGED <<getUserMedia, streams, visions, testCalls>>
          /\ ev' = [op |-> "runConnectivityTest", by |-> "test", ret |-> "no key", arg |-> ""]
     ELSE LET mockStream == Len(streams) + 1
              vision == Len(visions) + 1
          IN /\ streams' = Append(streams, "live")
             /\ getUserMedia' = Redirect(mockStream)
             /\ visions' = Append(visions, [st |-> "starting", stopAsked |-> FALSE, cap |-> "none"])
             /\ testCalls' = Append(testCalls, [pc |-> "start", vision |-> vision,
                                                originalGetUserMedia |-> getUserMedia])
             /\ ev' = [op |-> "runConnectivityTest", by |-> "test", ret |-> "pending", arg |-> ""]
  /\ UNCHANGED apiKeyStored
  /\ HookIdle

\* `await vision.start()` of the i-th test resolved: the cleanup timer is set.
TestStartResolve(i) ==
  /\ Tick
  /\ NoMicrotask
  /\ testCalls[i].pc = "start"
  /\ visions' = [visions EXCEPT ![testCalls[i].vision].st = "open"]
  /\ testCalls' = [testCalls EXCEPT ![i].pc = "timer"]
  /\ ev' = [op |-> "test.start", by |-> "test", ret |-> "timer", arg |-> "resolved"]
  /\ UNCHANGED <<apiKeyStored, getUserMedia, streams>>
  /\ HookIdle

\* `await vision.start()` of the i-th test rejected: the catch block puts
\* back the getUserMedia the test found.
TestStartReject(i) ==
  /\ Tick
  /\ NoMicrotask
  /\ testCalls[i].pc = "start"
  /\ visions' = [visions EXCEPT ![testCalls[i].vision].st = "failed"]
  /\ getUserMedia' = testCalls[i].originalGetUserMedia
  /\ testCalls' = RemoveAt(testCalls, i)
  /\ ev' = [op |-> "test.start", by |-> "test", ret |-> "restored", arg |-> "failed"]
  /\ UNCHANGED <<apiKeyStored, streams>>
  /\ HookIdle

\* The cleanup timer of the i-th test fires, 20 s after the start: to
\* `await vision.stop()`.
TestTimerFire(i) ==
  /\ Tick
  /\ NoMicrotask
  /\ testCalls[i].pc = "timer"
  /\ visions' = [visions EXCEPT ![testCalls[i].vision].stopAsked = TRUE]
  /\ testCalls' = [testCalls EXCEPT ![i].pc = "stop"]
  /\ ev' = [op |-> "test.timer", by |-> "test", ret |-> "pending", arg |-> ""]
  /\ UNCHANGED <<apiKeyStored, getUserMedia, streams>>
  /\ HookIdle

\* `await vision.stop()` of the i-th test settled: resolved, the test puts
\* back the getUserMedia it found; rejected, the callback ends there (the
\* await has no catch) and getUserMedia stays as it is.
TestStopSettle(i) ==
  /\ Tick
  /\ NoMicrotask
  /\ testCalls[i].pc = "stop"
  /\ \E outcome \in {"resolved", "failed"} :
       /\ getUserMedia' = IF outcome = "resolved"
                          THEN testCalls[i].originalGetUserMedia
                          ELSE getUserMedia
       /\ ev' = [op |-> "test.stop", by |-> "test",
                 ret |-> IF outcome = "resolved" THEN "restored" ELSE "threw",
                 arg |-> outcome]
  /\ testCalls' = RemoveAt(testCalls, i)
  /\ UNCHANGED <<apiKeyStored, streams, visions>>
  /\ HookIdle

HookBound == steps < MaxHookSteps

HookNext ==
  \/ HookBound /\ StartSessionCall
  \/ \E i \in 1..Len(startCalls) : HookBound /\ StartSessionResume(i)
  \/ HookBound /\ StopSessionCall
  \/ HookBound /\ ClearOvershootApiKey
  \/ HookBound /\ RunConnectivityTest
  \/ \E i \in 1..Len(testCalls) : HookBound /\ TestStartResolve(i)
  \/ \E i \in 1..Len(testCalls) : HookBound /\ TestStartReject(i)
  \/ \E i \in 1..Len(testCalls) : HookBound /\ TestTimerFire(i)
  \/ \E i \in 1..Len(testCalls) : HookBound /\ TestStopSettle(i)
  \/ HookBound /\ HandleStart
  \/ \E i \in 1..Len(startCalls) : HookBound /\ DisplayResolve(i)
  \/ \E i \in 1..Len(startCalls) : HookBound /\ DisplayReject(i)
  \/ \E i \in 1..Len(startCalls) : HookBound /\ VisionStartResolve(i)
  \/ \E i \in 1..Len(startCalls) : HookBound /\ VisionStartReject(i)
  \/ \E v \in 1..Len(visions), r \in Results : HookBound /\ OnResult(v, r)
  \/ \E v \in 1..Len(visions), e \in Errors : HookBound /\ OnError(v, e)
  \/ HookBound /\ RetryFire
  \/ HookBound /\ HandleStop
  \/ \E i \in 1..Len(stopCalls) : HookBound /\ StopResume(i)
  \/ \E i \in 1..Len(summaryCalls) : HookBound /\ SummarySettle(i)
  \/ \E value \in FlowTexts : HookBound /\ SetFlowTitle(value)
  \/ \E value \in FlowTexts : HookBound /\ SetFlowDescription(value)

SpecHook == Init /\ [][HookNext]_vars

\* ========================================================== properties
StreamErrors == {"stream_not_found", "404"}

\* C1: counting the stream errors delivered since the last observation (or
\* stop), the first three each set exactly one retry timer and the counter
\* follows them; the fourth and later ones set none and leave the status at
\* Connection Lost: three retries, never four.
C1_ThreeRetriesThenLost ==
  /\ retriesInRun = (IF transientRun < 3 THEN transientRun ELSE 3)
  /\ retryCount = retriesInRun
  /\ (ev.op = "onError" /\ ev.arg \in StreamErrors /\ transientRun >= 4)
        => (status = "Connection Lost" /\ ev.ret = "lost")

C1_Witness ==
  /\ ev.op = "onError" /\ ev.arg \in StreamErrors
  /\ transientRun = 4 /\ retriesInRun = 3 /\ Len(timers) = 3
  /\ status = "Connection Lost"

\* C2: a retry timer that fires after stopSession() completed (status Ready,
\* no stop in flight, session inactive) changes nothing: status stays Ready,
\* no capture stream is requested or held, the redirect is not installed, no
\* vision client is created and the observation buffer is kept.
C2_LateRetryIsNoOp ==
  [][(timers # <<>> /\ timers' = Tail(timers)
        /\ status = "Ready" /\ stopCalls = <<>> /\ ~isActive)
      => (/\ status' = "Ready"
          /\ startCalls' = startCalls
          /\ previewStreamRef' = previewStreamRef
          /\ patchedRef' = patchedRef
          /\ getUserMedia' = getUserMedia
          /\ visions' = visions
          /\ observationsRef' = observationsRef)]_vars

\* C3: what stopSession() returns is exactly the observations appended since
\* the Start click that began the session, in arrival order.
C3_StopReturnsSessionObservations ==
  ev.ret = "returned" => capturedObservations = sessionObs

\* C4 (as amended): startSession() invoked by a Start click while the status
\* is Recording returns true and changes neither the status, the observation
\* buffer, the capture stream, the pending calls nor the vision clients.
C4_ClickWhileRecordingIsNoOp ==
  [][(ev'.op = "startSession" /\ status = "Recording")
      => (/\ ev'.ret = "true"
          /\ status' = status
          /\ observationsRef' = observationsRef
          /\ startCalls' = startCalls
          /\ streams' = streams
          /\ previewStreamRef' = previewStreamRef
          /\ visions' = visions
          /\ visionRef' = visionRef)]_vars

C4_Witness ==
  /\ ev.op = "startSession" /\ ev.by = "user" /\ ev.ret = "true"
  /\ status = "Recording"
  /\ isActive

\* C4 (as stated): every invocation of startSession() while the status is
\* Recording, the retry timer's included, is such a no-op.
C4_AnyStartWhileRecordingIsNoOp ==
  [][(ev'.op \in {"startSession", "retry"} /\ status = "Recording")
      => (/\ ev'.ret = "true"
          /\ status' = status
          /\ observationsRef' = observationsRef
          /\ startCalls' = startCalls
          /\ streams' = streams
          /\ previewStreamRef' = previewStreamRef
          /\ visions' = visions
          /\ visionRef' = visionRef)]_vars

\* C5: at most one vision connection is open (start() called and not failed,
\* stop() not requested) in every reachable state.
C5_AtMostOneOpenVision == Cardinality(OpenVisions) <= 1

\* C6: from Connection Lost, only an explicit Start or Stop (and the
\* completion of that Stop) changes the status or creates a vision client;
\* retry timers and completions of earlier startSession() calls do not.
C6_ConnectionLostIsTerminal ==
  [][(status = "Connection Lost"
        /\ ev'.op \notin {"startSession", "stopSession", "vision.stop"})
      => (status' = "Connection Lost" /\ Len(visions') = Len(visions))]_vars

\* C7: an error that is not a stream_not_found/404 error, or any error when
\* the retry counter is already 3, sets the status to Connection Lost and the
\* live text to the connection-lost message, sets no timer and leaves the
\* retry counter as it was.
C7_OtherErrorOrCapGoesToLost ==
  [][(ev'.op = "onError" /\ (ev'.arg \notin StreamErrors \/ retryCount = 3))
      => (/\ status' = "Connection Lost"
          /\ latestObservation' = ConnectionLostText
          /\ timers' = timers
          /\ retryCount' = retryCount)]_vars

C7_Witness ==
  /\ ev.op = "onError" /\ ev.arg = "timeout"
  /\ status = "Connection Lost" /\ latestObservation = ConnectionLostText
  /\ retryCount = 2 /\ Len(timers) = 2

\* C8: the retry counter goes down only in the observation handler (and in
\* stopSession, which ends the session); a vision.start() that succeeds,
\* a reconnect's included, leaves it at its value.
C8_OnlyObservationResetsRetryCount ==
  [][/\ (retryCount' < retryCount => ev'.op \in {"onResult", "stopSession"})
     /\ (ev'.op = "vision.start" => retryCount' = retryCount)]_vars

C8_Witness ==
  /\ ev.op = "vision.start" /\ ev.by = "retry" /\ ev.ret = "true"
  /\ status = "Recording"
  /\ retryCount >= 1

\* C9: a rejected getDisplayMedia() or vision.start() makes startSession()
\* return false, and whenever startSession() returns false the getUserMedia
\* redirect is not installed and the entry point is the original one.
C9_FailedStartLeavesNoRedirect ==
  /\ (ev.op \in {"getDisplayMedia", "vision.start"} /\ ev.arg = "rejected")
       => ev.ret = "false"
  /\ ev.ret = "false"
       => (~patchedRef /\ getUserMedia = NativeGUM /\ originalGetUserMediaRef = NoGUM)

C9_Witness ==
  /\ ev.op = "vision.start" /\ ev.ret = "false"
  /\ previewStreamRef # 0 /\ streams[previewStreamRef] = "live"
  /\ ~patchedRef /\ status = "Error"

\* C10: when startSession() fails after the capture stream was acquired
\* (vision construction or vision.start() failed), no stream is held, every
\* stream handed out has its tracks stopped, and the status is Error.
C10_FailedStartReleasesStream ==
  (ev.ret = "false"
     /\ (ev.op = "vision.start" \/ (ev.op = "getDisplayMedia" /\ ev.arg = "resolved")))
    => (/\ previewStreamRef = 0
        /\ \A s \in 1..Len(streams) : streams[s] = "stopped"
        /\ status = "Error")

\* C11: the getUserMedia redirect never stacks.  The saved original is the
\* native entry point or nothing, never a redirect; while the redirect is
\* installed the native entry point is the one saved, and installing again
\* (for any stream) changes nothing; while it is not installed, restoring
\* changes nothing; and every completed stopSession() leaves getUserMedia
\* equal to the native entry point with nothing installed.
C11_RedirectNeverStacks ==
  /\ originalGetUserMediaRef \in {NoGUM, NativeGUM}
  /\ patchedRef => /\ originalGetUserMediaRef = NativeGUM
                   /\ getUserMedia.kind = "redirect"
                   /\ \A s \in 1..Len(streams) : patchGetUserMediaToReturn(Cur, s) = Cur
  /\ ~patchedRef => restoreGetUserMedia(Cur) = Cur
  /\ ev.ret = "returned" => (getUserMedia = NativeGUM /\ ~patchedRef)

\* A stop completed after a reconnect on the held stream, i.e. after
\* patchGetUserMediaToReturn ran with the redirect already installed.
C11_Witness ==
  /\ ev.op = "vision.stop" /\ ev.ret = "returned"
  /\ Len(streams) = 1 /\ Len(visions) = 2
  /\ visions[2].cap # "Recording"
  /\ getUserMedia = NativeGUM /\ ~patchedRef

\* C12: when the vision stop() awaited by stopSession() rejects,
\* stopSession() still returns: the held capture stream has its tracks
\* stopped and is released, getUserMedia is the native entry point again,
\* the status is Ready and the caller receives the observation buffer.
C12_StopSurvivesVisionStopFailure ==
  [][(ev'.op = "vision.stop" /\ ev'.arg = "rejected")
      => (/\ ev'.ret = "returned"
          /\ status' = "Ready"
          /\ previewStreamRef # 0 => streams'[previewStreamRef] = "stopped"
          /\ previewStreamRef' = 0
          /\ ~patchedRef' /\ getUserMedia' = NativeGUM
          /\ capturedObservations' = observationsRef)]_vars

C12_Witness ==
  /\ ev.op = "vision.stop" /\ ev.arg = "rejected" /\ ev.ret = "returned"
  /\ status = "Ready"
  /\ streams = <<"stopped">>
  /\ capturedObservations # <<>>

\* No startSession() has got as far as asking for a capture stream: the hook
\* is as constructed.
NeverStarted ==
  /\ status = "Ready" /\ visionRef = 0 /\ previewStreamRef = 0 /\ ~patchedRef
  /\ visions = <<>> /\ streams = <<>> /\ startCalls = <<>>

\* C13: stopSession() called when no session was ever started returns (it
\* does not throw, and does not suspend), returns the empty list and leaves
\* the status Ready, with still no vision handle, stream or redirect.
C13_StopFromNeverStarted ==
  [][(ev'.op = "stopSession" /\ NeverStarted)
      => (/\ ev'.ret = "returned"
          /\ capturedObservations' = <<>>
          /\ status' = "Ready"
          /\ visionRef' = 0 /\ previewStreamRef' = 0 /\ ~patchedRef'
          /\ getUserMedia' = NativeGUM)]_vars

C13_Witness ==
  /\ ev.op = "stopSession" /\ ev.by = "client" /\ ev.ret = "returned"
  /\ steps = 1
  /\ status = "Ready" /\ capturedObservations = <<>>

\* runConnectivityTest() has not been called with a key stored: getUserMedia
\* is what the hook made of it.
NoTestRan == \A v \in 1..Len(visions) : visions[v].cap # "none"

\* The controller state a call of stopSession() can change or depend on.
ControllerState(h) ==
  <<h.status, h.latestObservation, h.previewStreamRef, h.visionRef,
    h.originalGetUserMediaRef, h.patchedRef, h.observationsRef, h.retryCount,
    h.getUserMedia, h.streams, h.visions, h.startCalls, h.timers>>

\* C14: stopSession() is idempotent from every status.  Whenever a call has
\* completed, the status is Ready, there is no vision handle and no held
\* stream, the redirect is removed and the retry counter is 0; and a second
\* call made right then returns at once, leaves the controller state as the
\* first call left it and returns the same observation list.
C14_StopIsIdempotent ==
  ev.ret = "returned"
    => /\ status = "Ready" /\ visionRef = 0 /\ previewStreamRef = 0
       /\ ~patchedRef /\ (NoTestRan => getUserMedia = NativeGUM)
       /\ retryCount = 0
       /\ LET h == stopSession(Cur)
          IN /\ h.ret = "returned"
             /\ h.out = capturedObservations
             /\ ControllerState(h) = ControllerState(Cur)

\* The two parts of `raw` cut after its k-th observation.
Before(k) == SubSeq(raw, 1, k)
After(k)  == SubSeq(raw, k + 1, Len(raw))

\* The first observation after the cut is at or above the threshold against
\* the description of the last event of the part before the cut.
JoinsAcross(k) ==
  LET a == compressObservations(Before(k), threshold)
  IN AtLeast(calculateJaccardSimilarity(a[Len(a)].description,
                                        ObservationText(raw[k + 1])),
             threshold)

\* C15 (as stated): for every way of cutting the input into A ++ B,
\* compressObservations(A ++ B) has at most as many events as
\* compressObservations(A) and compressObservations(B) together.
C15_ConcatNeverAddsEvents ==
  applied => \A k \in 0..Len(raw) :
    Len(compressed) <= Len(compressObservations(Before(k), threshold))
                         + Len(compressObservations(After(k), threshold))

\* C15 (as amended): when A or B is empty, or B's first observation is below
\* the threshold against the description of A's last event, the output for
\* A ++ B is the output for A followed by the output for B; when B's first
\* observation joins A's last streak, the output for A ++ B has at most
\* (events of A) + (observations of B) - 1 events.
C15_ConcatAddsOnlyBehindAMerge ==
  applied => \A k \in 0..Len(raw) :
    LET a == compressObservations(Before(k), threshold)
        b == compressObservations(After(k), threshold)
    IN IF k = 0 \/ k = Len(raw) \/ ~JoinsAcross(k)
       THEN compressed = a \o b
       ELSE Len(compressed) <= Len(a) + Len(After(k)) - 1

\* "a b c d", "a b c", "A b", "a b c d" at threshold 0.6: cut after the first,
\* the parts give one event each and the whole gives three.
C15_Witness ==
  /\ applied
  /\ threshold = DefaultThreshold
  /\ Len(raw) = 4
  /\ JoinsAcross(1)
  /\ Len(compressObservations(Before(1), threshold)) = 1
  /\ Len(compressObservations(After(1), threshold)) = 1
  /\ Len(compressed) = 3

\* C16: for input in non-decreasing timestamp order, every returned event
\* has endTime >= startTime, count >= 1 and
\* durationSec = (endTime - startTime) / 1000.
C16_EventsWellFormed ==
  (applied /\ NonDecreasing(raw))
    => \A i \in 1..Len(compressed) :
         LET e == compressed[i]
         IN /\ e.endTime >= e.startTime
            /\ e.count >= 1
            /\ SameNumber(e.durationSec, Ratio(e.endTime - e.startTime, 1000))

C16_Witness ==
  /\ applied
  /\ \E i \in 1..Len(compressed) :
       /\ compressed[i].count >= 2
       /\ compressed[i].endTime > compressed[i].startTime
       /\ compressed[i].durationSec = Ratio(1500, 1000)

\* Index in `raw` of the first member of the i-th returned event, taking
\* each event to cover `count` observations after the event before it.
RECURSIVE FirstOf(_)
FirstOf(i) == IF i = 1 THEN 1 ELSE FirstOf(i - 1) + compressed[i - 1].count

LastOf(i) == FirstOf(i) + compressed[i].count - 1

\* C17: the returned events partition the input into consecutive non-empty
\* runs in input order: event i covers the run after event i-1's run, its
\* startTime and endTime are the timestamps of the run's first and last
\* observation, and the counts add up to the number of observations.
C17_EventsPartitionInput ==
  applied
    => /\ \A i \in 1..Len(compressed) :
            /\ compressed[i].count >= 1
            /\ LastOf(i) <= Len(raw)
            /\ compressed[i].startTime = raw[FirstOf(i)].ts
            /\ compressed[i].endTime = raw[LastOf(i)].ts
       /\ IF compressed = <<>> THEN Len(raw) = 0
          ELSE LastOf(Len(compressed)) = Len(raw)

C17_Witness ==
  /\ applied
  /\ Len(raw) = 4 /\ Len(compressed) = 2
  /\ compressed[1].count = 2 /\ compressed[2].count = 2
  /\ compressed[1].endTime < compressed[2].endTime

\* Similarity of the texts of the m-th and n-th observation of `raw`.
SimilarityOf(m, n) ==
  calculateJaccardSimilarity(ObservationText(raw[m]), ObservationText(raw[n]))

\* C18: an observation joins the open streak exactly when its similarity to
\* the streak's anchor (the streak's first member) is >= threshold, equality
\* included, and otherwise closes it and anchors the next one; every event's
\* description is the text of its first member.
C18_JoinsExactlyAtOrAboveThreshold ==
  applied
    => \A i \in 1..Len(compressed) :
         /\ compressed[i].description = ObservationText(raw[FirstOf(i)])
         /\ \A m \in FirstOf(i) + 1..LastOf(i) :
              AtLeast(SimilarityOf(FirstOf(i), m), threshold)
         /\ i < Len(compressed)
              => ~AtLeast(SimilarityOf(FirstOf(i), LastOf(i) + 1), threshold)

\* "a b c d" then "A b" at threshold 0.5: similarity exactly 0.5, one streak
\* labelled "a b c d".
C18_Witness ==
  /\ applied
  /\ threshold = Ratio(1, 2)
  /\ Len(raw) = 2
  /\ SameNumber(SimilarityOf(1, 2), threshold)
  /\ Len(compressed) = 1
  /\ compressed[1].count = 2
  /\ compressed[1].description = TextABCD
  /\ ObservationText(raw[2]) = TextAb

\* C19: the empty input gives the empty output; an input of n >= 1
\* observations gives between 1 and n events, and exactly n when every
\* observation is below the threshold against the one before it.
C19_OutputLength ==
  applied
    => /\ Len(raw) = 0 => compressed = <<>>
       /\ Len(raw) >= 1 => (1 <= Len(compressed) /\ Len(compressed) <= Len(raw))
       /\ (\A m \in 2..Len(raw) : ~AtLeast(SimilarityOf(m - 1, m), threshold))
            => Len(compressed) = Len(raw)

C19_Witness ==
  /\ applied
  /\ threshold = DefaultThreshold
  /\ Len(raw) = 4 /\ Len(compressed) = 4
  /\ ObservationText(raw[1]) = ObservationText(raw[3])

\* C20: a single observation with timestamp t gives exactly one event with
\* startTime = endTime = t, count = 1 and durationSec = 0, for every
\* threshold.
C20_SingleObservation ==
  (applied /\ Len(raw) = 1)
    => /\ Len(compressed) = 1
       /\ compressed[1].startTime = raw[1].ts
       /\ compressed[1].endTime = raw[1].ts
       /\ compressed[1].count = 1
       /\ SameNumber(compressed[1].durationSec, Ratio(0, 1))

C20_Witness ==
  /\ applied
  /\ Len(raw) = 1
  /\ threshold = Ratio(3, 2)
  /\ compressed[1].startTime = 2500

\* 0 <= threshold <= 1
InUnitInterval(x) == AtLeast(x, Ratio(0, 1)) /\ AtLeast(Ratio(1, 1), x)

\* The first n observations of `raw` all carry the text of the first.
SameText(n) ==
  \A m \in 1..n : ObservationText(raw[m]) = ObservationText(raw[1])

\* The event for n observations of one text at the head of `raw`.
RunEvent(n) ==
  [description |-> ObservationText(raw[1]),
   startTime |-> raw[1].ts, endTime |-> raw[n].ts,
   durationSec |-> compressed[1].durationSec, count |-> n]

\* The text of the last observation shares no token with the first's.
LastIsDisjoint ==
  SimilarityOf(1, Len(raw)).num = 0

\* C21 (as stated): for a threshold in [0,1], n >= 1 observations of one
\* text give exactly one event with that text, the first and last timestamp
\* and count n; and when one more observation with a disjoint text
\* follows, it gives a second event with count 1 and durationSec 0.
C21_SameTextThenDisjoint ==
  (applied /\ InUnitInterval(threshold) /\ Len(raw) >= 1)
    => /\ SameText(Len(raw)) => compressed = <<RunEvent(Len(raw))>>
       /\ (Len(raw) >= 2 /\ SameText(Len(raw) - 1) /\ LastIsDisjoint)
            => /\ Len(compressed) = 2
               /\ compressed[1] = RunEvent(Len(raw) - 1)
               /\ compressed[2].count = 1
               /\ SameNumber(compressed[2].durationSec, Ratio(0, 1))

\* C21 (as amended): the second event is started only for a threshold above
\* 0; at threshold 0 the disjoint observation has similarity 0 >= 0 and
\* joins the first event, which then has count n + 1.
C21_SameTextThenDisjointAboveZero ==
  (applied /\ InUnitInterval(threshold) /\ Len(raw) >= 1)
    => /\ SameText(Len(raw)) => compressed = <<RunEvent(Len(raw))>>
       /\ (Len(raw) >= 2 /\ SameText(Len(raw) - 1) /\ LastIsDisjoint)
            => IF threshold.num > 0
               THEN /\ Len(compressed) = 2
                    /\ compressed[1] = RunEvent(Len(raw) - 1)
                    /\ compressed[2].count = 1
                    /\ compressed[2].startTime = raw[Len(raw)].ts
                    /\ SameNumber(compressed[2].durationSec, Ratio(0, 1))
               ELSE compressed = <<RunEvent(Len(raw))>>

\* Three observations "a b c" from 1000 to 2500, then { result: 7 }, at 0.6.
C21_Witness ==
  /\ applied
  /\ threshold = DefaultThreshold
  /\ Len(raw) = 4
  /\ SameText(3) /\ LastIsDisjoint
  /\ ObservationText(raw[1]) = TextABC
  /\ raw[1].ts = 1000 /\ raw[3].ts = 2500
  /\ Len(compressed) = 2
  /\ compressed[1].count = 3
  /\ compressed[1].durationSec = Ratio(1500, 1000)

\* C22: for every non-empty string s, calculateJaccardSimilarity(s, s) = 1.
C22_SelfSimilarityIsOne ==
  (applied /\ str1 = str2 /\ str1 # <<>>)
    => SameNumber(jaccard, Ratio(1, 1))

\* " Aa " against itself
C22_Witness ==
  /\ applied
  /\ str1 = <<" ", "A", "a", " ">>
  /\ str2 = str1
  /\ jaccard = Ratio(2, 2)

\* The words of a string: its lower-cased pieces between whitespace.
Words(str) == SetOf(split(toLowerCase(str))) \ {<<>>}

\* C23: two strings that each have a word and have no word in common, with
\* or without leading, trailing or repeated whitespace, have similarity 0.
\* (Pairs in which a string has no word at all are the case of C24.)
C23_DisjointWordsScoreZero ==
  (applied /\ Words(str1) # {} /\ Words(str2) # {}
     /\ Words(str1) \cap Words(str2) = {})
    => jaccard.num = 0

\* C24: when neither string has a word (empty or whitespace only) the
\* similarity is 0, and the similarity always lies in [0,1].
C24_NoWordsScoreZeroAndRange ==
  applied
    => /\ (Words(str1) = {} /\ Words(str2) = {}) => jaccard.num = 0
       /\ InUnitInterval(jaccard)

\* The score of the i-th session of the list: similarityById.get(s.id) ?? 0.
ScoreAt(i) == scoreOrZero(similarityById, sessions[i].id)

\* The i-th session has a maximal score and every session before it has a
\* smaller one.
FirstMaximalAt(i) ==
  /\ \A j \in 1..Len(sessions) : ~Greater(ScoreAt(j), ScoreAt(i))
  /\ \A j \in 1..(i - 1) : Greater(ScoreAt(i), ScoreAt(j))

BestIsFirstMaximal ==
  \E i \in 1..Len(sessions) : sessions[i].id = topMatchId /\ FirstMaximalAt(i)

\* C25 (as stated): for a non-empty query and a non-empty session list,
\* topMatchId is the id of the first session whose score is maximal.
C25_BestMatchIsFirstMaximal ==
  (workflowQuery # <<>> /\ Len(sessions) > 0) => BestIsFirstMaximal

\* C25 (as amended): for a query that is not empty or whitespace-only and a
\* non-empty session list, topMatchId is the id of the first session whose
\* score is maximal.
C25_BestMatchIsFirstMaximalForTrimmedQuery ==
  (trim(workflowQuery) # <<>> /\ Len(sessions) > 0) => BestIsFirstMaximal

\* query "b a" over "z", "b a", "a b": the last two tie at score 1
C25_Witness ==
  /\ workflowQuery = <<"b", " ", "a">>
  /\ Len(sessions) = 3
  /\ sessions[1].title = <<"z">> /\ sessions[1].id = SessionId("5")
  /\ sessions[2].title = <<"b", " ", "a">> /\ sessions[2].id = SessionId("2")
  /\ sessions[3].title = <<"a", " ", "b">> /\ sessions[3].id = SessionId("1")
  /\ ScoreAt(2) = ScoreAt(3)
  /\ Greater(ScoreAt(2), ScoreAt(1))
  /\ topMatchId = SessionId("2")

\* C26: with an empty or whitespace-only query the score mapping has no
\* entry and there is no best match, whatever the sessions; with no session
\* there is no best match, whatever the query.
C26_InertWithoutQueryOrSessions ==
  /\ trim(workflowQuery) = <<>>
       => DOMAIN similarityById = {} /\ topMatchId = NoMatch
  /\ Len(sessions) = 0 => topMatchId = NoMatch

\* a blank typed into the search box over three sessions
C26_Witness ==
  /\ workflowQuery = <<" ">>
  /\ Len(sessions) = 3
  /\ DOMAIN similarityById = {}
  /\ topMatchId = NoMatch

InUnit(sc) == ~Greater(sc, One) /\ ~Greater(Zero, sc)

SharesToken(query, s) ==
  SetOf(tokenizeText(query)) \cap SetOf(tokenizeText(sessionSearchText(s))) # {}

ScoresAreWellFormed ==
  /\ DOMAIN similarityById = {sessions[i].id : i \in 1..Len(sessions)}
  /\ \A id \in DOMAIN similarityById : InUnit(similarityById[id])
  /\ \A i \in 1..Len(sessions) :
       ~SharesToken(workflowQuery, sessions[i])
         => similarityById[sessions[i].id] = Zero

\* C27: for every query that has a character other than whitespace (a
\* whitespace-only query has no entry at all) the score mapping has exactly
\* one entry per session id, each score lies in [0,1], and a session whose
\* searchable text shares no token with the query scores 0.
C27_ScoreMapping ==
  trim(workflowQuery) # <<>> => ScoresAreWellFormed

\* The lines of the response content, and each line with its leading marker
\* stripped and trimmed.
LinesOfContent == splitLines(requestEnd.content)

Cleaned(i) == trim(stripMarker(LinesOfContent[i]))

\* The lines that still have at least 6 characters.
Qualifying == {i \in 1..Len(LinesOfContent) : Len(Cleaned(i)) >= 6}

\* The place of the qualifying line i among the qualifying lines.
PlaceOf(i) == Cardinality({j \in Qualifying : j < i}) + 1

\* C29: on a response with a content, generateSessionSummary returns at most
\* 3 highlights: the first lines of the content, in order, that still have
\* at least 6 characters after the leading marker is stripped and the line
\* is trimmed.
C29_HighlightsAreFirstThreeLongLines ==
  (applied /\ requestEnd.kind = "content")
    => /\ ~summary.threw
       /\ Len(summary.highlights) <= 3
       /\ Len(summary.highlights) =
            (IF Cardinality(Qualifying) < 3 THEN Cardinality(Qualifying) ELSE 3)
       /\ \A i \in Qualifying :
            PlaceOf(i) <= 3 => summary.highlights[PlaceOf(i)] = Cleaned(i)

\* "1. abcde", "- abcdef", " - abcd", "abcdefg": the first line is too short
\* once stripped, the other three are returned
C29_Witness ==
  /\ applied
  /\ requestEnd.kind = "content"
  /\ Len(LinesOfContent) = 4
  /\ LinesOfContent[1] = <<"1", ".", " ", "a", "b", "c", "d", "e">>
  /\ LinesOfContent[2] = <<"-", " ", "a", "b", "c", "d", "e", "f">>
  /\ LinesOfContent[3] = <<" ", "-", " ", "a", "b", "c", "d">>
  /\ summary.highlights =
       << <<"a", "b", "c", "d", "e", "f">>,
          <<"-", " ", "a", "b", "c", "d">>,
          <<"a", "b", "c", "d", "e", "f", "g">> >>

\* The request of the i-th suspended generateSessionSummary ends in a
\* transport or parse failure in this step.
SummaryFails(i) ==
  /\ summaryCalls' = RemoveAt(summaryCalls, i)
  /\ ev'.op = "generateSessionSummary"
  /\ ev'.arg \in {"fetch rejected", "json rejected"}

\* C28: when the summarization request fails in transport or its response
\* cannot be parsed, generateSessionSummary does not throw and returns the
\* three fallback highlights, and handleStop still puts the Session record
\* with the raw and the compressed log of that stop in front of the list.
C28_SummaryFailureStillRecordsSession ==
  [][\A i \in 1..Len(summaryCalls) :
       SummaryFails(i)
         => /\ ev'.ret = "highlights"
            /\ Len(sessions') = Len(sessions) + 1
            /\ Tail(sessions') = sessions
            /\ sessions'[1].highlights = FallbackHighlights
            /\ Len(sessions'[1].highlights) = 3
            /\ sessions'[1].rawObservations = summaryCalls[i].capturedObservations
            /\ sessions'[1].compressedLog = summaryCalls[i].compressedData
            /\ sessions'[1].compressedLog =
                 compressObservations(TextPayloads(sessions'[1].rawObservations),
                                      DefaultThreshold)]_vars

\* the response was not JSON; the record has two observations "a", "a" in
\* one event
C28_Witness ==
  /\ ev.op = "generateSessionSummary"
  /\ ev.arg = "json rejected"
  /\ ev.ret = "highlights"
  /\ Len(sessions) = Len(seedSessions) + 1
  /\ sessions[1].highlights = FallbackHighlights
  /\ Len(sessions[1].rawObservations) = 2
  /\ Len(sessions[1].compressedLog) = 1
  /\ sessions[1].compressedLog[1].count = 2

\* C30: as long as the clock has not gone back (no Date.now() has returned
\* less than the one before it), every Session record has
\* endedAt >= startedAt, whatever the order of starts, stops and summary
\* completions.
C30_EndedNotBeforeStarted ==
  clockOrdered =>
    \A i \in 1..Len(sessions) : sessions[i].endedAt >= sessions[i].startedAt

\* a record made by handleStop after its summary arrived, ended later than
\* started
C30_Witness ==
  /\ clockOrdered
  /\ ev.op = "generateSessionSummary"
  /\ ev.arg = "content"
  /\ Len(sessions) = Len(seedSessions) + 1
  /\ sessions[1].startedAt = 1
  /\ sessions[1].endedAt = 2
  /\ Len(sessions[1].highlights) = 2

\* Similarity of the descriptions of the i-th and the following event.
AdjacentSimilarity(i) ==
  calculateJaccardSimilarity(compressed[i].description, compressed[i + 1].description)

\* Similarity of the m-th observation's text to the i-th event's description.
MemberSimilarity(i, m) ==
  calculateJaccardSimilarity(compressed[i].description, ObservationText(raw[m]))

AdjacentEventsBelowThreshold ==
  \A i \in 1..Len(compressed) - 1 : ~AtLeast(AdjacentSimilarity(i), threshold)

MembersAtOrAboveThreshold ==
  \A i \in 1..Len(compressed) :
    \A m \in FirstOf(i)..LastOf(i) : AtLeast(MemberSimilarity(i, m), threshold)

\* C36: for a threshold in [0,1], which compress requires, the descriptions
\* of two adjacent output events have similarity strictly below the
\* threshold, and every member of a streak, its first included, has
\* similarity >= threshold with the streak's description.
C36_StreaksAreMaximal ==
  (applied /\ InUnitInterval(threshold))
    => (AdjacentEventsBelowThreshold /\ MembersAtOrAboveThreshold)

\* "a b c d", "a b c" (0.75 to the anchor), "A b" (0.5 to the anchor, below
\* 0.6), "A b": two streaks of two, 0.5 apart.
C36_Witness ==
  /\ applied
  /\ threshold = DefaultThreshold
  /\ Len(raw) = 4 /\ Len(compressed) = 2
  /\ compressed[1].description = TextABCD /\ compressed[1].count = 2
  /\ compressed[2].description = TextAb /\ compressed[2].count = 2
  /\ ObservationText(raw[2]) = TextABC
  /\ SameNumber(AdjacentSimilarity(1), Ratio(1, 2))

\* The changes of status the capture state machine is specified to make.
StatusEdges ==
  {<<"Ready", "Initializing...">>, <<"Initializing...", "Recording">>,
   <<"Recording", "Reconnecting...">>, <<"Reconnecting...", "Recording">>,
   <<"Stopping...", "Ready">>}
    \cup {<<s, "Stopping...">> : s \in {"Ready", "Initializing...", "Recording", "Reconnecting...",
                                         "Error", "Connection Lost"}}
    \cup {<<s, f>> : s \in {"Initializing...", "Recording", "Reconnecting..."},
                     f \in {"Error", "Connection Lost"}}

\* A handler step that calls setStatus twice: a startSession() that fails
\* before its first await, and a stopSession() that has nothing to await.
StatusSetTwice(e) ==
  \/ e.op \in {"startSession", "retry"} /\ e.ret = "false"
  \/ e.op = "stopSession" /\ e.ret = "returned"

TwoStatusEdges(from, to) ==
  \E mid \in {"Initializing...", "Reconnecting...", "Stopping..."} :
    <<from, mid>> \in StatusEdges /\ <<mid, to>> \in StatusEdges

\* C31: the status only changes along the specified edges (two of them in
\* a handler step that sets it twice); in particular it never becomes
\* Recording directly from Ready, Stopping, Error or Connection Lost.
C31_StatusFollowsEdges ==
  [][status' # status
       => \/ <<status, status'>> \in StatusEdges
          \/ StatusSetTwice(ev') /\ TwoStatusEdges(status, status')]_vars

\* C32: when stopSession() has completed, no vision connection is open:
\* every client whose start() was called and did not fail has been asked to
\* stop, a client created by a retry during the awaited stop included.
C32_StopLeavesNoOpenVision ==
  ev.ret = "returned" => OpenVisions = {}

\* C33: no capture stream that was handed out is dropped with its tracks
\* live: a live stream is the one the controller holds.  (The claim's last
\* clause; acquiring twice between two stops is what breaks it.)
C33_NoLiveStreamDropped ==
  \A s \in 1..Len(streams) : streams[s] = "live" => previewStreamRef = s

\* C34: a stream error received while the retry counter is below 3 raises
\* the counter by exactly 1 and sets exactly one timer; a timer that fires
\* asks the current vision client to stop and re-invokes startSession(),
\* which reports Reconnecting and not Initializing.
C34_RetryReportsReconnecting ==
  [][/\ (ev'.op = "onError" /\ ev'.arg \in StreamErrors /\ retryCount < RetryCap)
          => (retryCount' = retryCount + 1 /\ Len(timers') = Len(timers) + 1)
     /\ ev'.op = "retry"
          => /\ Len(timers') = Len(timers) - 1
             /\ visionRef # 0 => visions'[visionRef].stopAsked
             /\ status' = "Reconnecting..."]_vars

\* C39: whenever the getUserMedia redirect is installed, a capture stream
\* is held, its tracks are live and the redirect returns that stream; and
\* getUserMedia is a redirect only while it is recorded as installed.
C39_RedirectReturnsHeldStream ==
  /\ patchedRef => /\ previewStreamRef # 0
                   /\ getUserMedia = Redirect(previewStreamRef)
                   /\ streams[previewStreamRef] = "live"
  /\ getUserMedia.kind = "redirect" => patchedRef

\* C40: the retry counter is always one of 0, 1, 2, 3, and no more than 3
\* retry timers are set between two resets (observation or stop).
C40_RetryCounterWithinCap ==
  /\ retryCount \in 0..RetryCap
  /\ retriesInRun \in 0..RetryCap

\* The third stream error in a row has just set the third timer.
C40_Witness ==
  /\ ev.op = "onError" /\ ev.ret = "retry"
  /\ retryCount = RetryCap /\ retriesInRun = RetryCap
  /\ Len(timers) = RetryCap

\* C35: every run of the observation handler appends exactly one
\* observation, stamped with the time it read and carrying the payload it
\* was given, behind the entries the buffer had, which it leaves as they
\* were, and sets the retry counter to 0; and the buffer is in
\* non-decreasing timestamp order in every state.
C35_ObservationAppendsInOrder ==
  /\ []NonDecreasing(observationsRef)
  /\ [][ev'.op = "onResult"
          => /\ observationsRef'
                  = Append(observationsRef, [ts |-> now', result |-> [result |-> ev'.arg]])
             /\ retryCount' = 0]_vars

\* C35 (as amended): every run of the observation handler appends exactly
\* one observation, stamped with the time it read and carrying the payload
\* it was given, behind the entries the buffer had, which it leaves as they
\* were, and sets the retry counter to 0; and as long as the clock has not
\* gone back the buffer is in non-decreasing timestamp order.
C35_ObservationAppendsInClockOrder ==
  /\ [](clockOrdered => NonDecreasing(observationsRef))
  /\ [][ev'.op = "onResult"
          => /\ observationsRef'
                  = Append(observationsRef, [ts |-> now', result |-> [result |-> ev'.arg]])
             /\ retryCount' = 0]_vars

\* A second observation, later than the first, arrived while a retry was
\* pending and the counter was at 1.
C35_Witness ==
  /\ clockOrdered
  /\ ev.op = "onResult"
  /\ Len(observationsRef) = 2
  /\ observationsRef[1].ts < observationsRef[2].ts
  /\ observationsRef[1].result # observationsRef[2].result
  /\ retryCount = 0
  /\ Len(timers) = 1

\* C37: no recording adds more than one Session record: the records added
\* never outnumber the handleStart calls that succeeded, also when Stop is
\* clicked again while a handleStop is suspended in stopSession() or in the
\* summarizer.
C37_OneRecordPerRecording ==
  recordingsOpen >= 0

\* C38: what stopSession() returns is the buffer as it is at the return,
\* and the Session record is built from the returned list (its compressed
\* log is the compression of its raw observations); an observation handled
\* later changes neither the returned list, nor a record, nor the list a
\* suspended handleStop holds.
C38_ReturnedListIsSnapshot ==
  [][/\ ev'.ret = "returned" => capturedObservations' = observationsRef
     /\ Len(sessions') > Len(sessions)
          => LET s == sessions'[1]
             IN /\ s.compressedLog
                     = compressObservations(TextPayloads(s.rawObservations), DefaultThreshold)
                /\ ev'.ret = "returned" => s.rawObservations = observationsRef
                /\ ev'.op = "generateSessionSummary"
                     => \E i \in 1..Len(summaryCalls) :
                          s.rawObservations = summaryCalls[i].capturedObservations
     /\ ev'.op = "onResult"
          => /\ capturedObservations' = capturedObservations
             /\ sessions' = sessions
             /\ summaryCalls' = summaryCalls
             /\ stopCalls' = stopCalls]_vars

\* An observation arrived after the stop that recorded the session: it is
\* in the buffer and not in the record.
C38_Witness ==
  /\ ev.op = "onResult"
  /\ status = "Ready" /\ ~isActive
  /\ Len(sessions) = Len(seedSessions) + 1
  /\ Len(sessions[1].rawObservations) = 1
  /\ sessions[1].rawObservations = capturedObservations
  /\ Len(observationsRef) = 2
  /\ observationsRef[1] = capturedObservations[1]
=============================================================================
